---- MODULE Spec2Model ----
(***************************************************************************)
(* Model of the CV-to-HTML generator: the /generate request handler, the   *)
(* section parser parseCvSections, the renderer generateFullHtml           *)
(* (src/server.js) and the publish script                                  *)
(* (src/commit_generated_to_github.js).                                    *)
(*                                                                         *)
(* A JavaScript string is a sequence of one-character strings, so that     *)
(* length, trim, split, includes, toLowerCase and HTML escaping are        *)
(* computed character by character as the code computes them.              *)
(***************************************************************************)
EXTENDS Integers, Sequences, FiniteSets

VARIABLES render, parse, req, env, pub

vars == <<render, parse, req, env, pub>>

(***************************************************************************)
(* String primitives (the JavaScript String methods the code calls).       *)
(***************************************************************************)

\* The characters JavaScript's trim() and the regular expression \s treat as
\* white space, among those the model's texts use.
WS == {" ", "\t", "\n", "\r"}

UpperCase == <<"A", "B", "C", "D", "E", "F", "G", "H", "I", "J", "K", "L", "M", "N", "O", "P", "Q", "R", "S", "T", "U", "V", "W", "X", "Y", "Z">>

LowerCase == <<"a", "b", "c", "d", "e", "f", "g", "h", "i", "j", "k", "l", "m", "n", "o", "p", "q", "r", "s", "t", "u", "v", "w", "x", "y", "z">>

Letters == {UpperCase[i] : i \in 1..26} \cup {LowerCase[i] : i \in 1..26}

ToLowerChar(c) ==
  IF \E i \in 1..26 : UpperCase[i] = c
  THEN LowerCase[CHOOSE i \in 1..26 : UpperCase[i] = c]
  ELSE c

\* String.prototype.toLowerCase
ToLowerCase(s) == [i \in 1..Len(s) |-> ToLowerChar(s[i])]

Min(a, b) == IF a < b THEN a ELSE b

Max(a, b) == IF a > b THEN a ELSE b

\* Array.prototype.slice(from, to) and String.prototype.slice, zero-indexed,
\* for 0 <= from: the elements at zero-based positions from .. to-1.
Slice(s, from, to) ==
  LET hi == Min(to, Len(s))
  IN IF from >= hi THEN <<>> ELSE [i \in 1..(hi - from) |-> s[from + i]]

\* String.prototype.trim
TrimStart(s) ==
  IF \A i \in 1..Len(s) : s[i] \in WS THEN <<>>
  ELSE LET f == CHOOSE i \in 1..Len(s) : s[i] \notin WS /\ \A j \in 1..(i - 1) : s[j] \in WS
       IN Slice(s, f - 1, Len(s))

TrimEnd(s) ==
  IF \A i \in 1..Len(s) : s[i] \in WS THEN <<>>
  ELSE LET l == CHOOSE i \in 1..Len(s) : s[i] \notin WS /\ \A j \in (i + 1)..Len(s) : s[j] \in WS
       IN Slice(s, 0, l)

Trim(s) == TrimEnd(TrimStart(s))

\* s.startsWith(h) at zero-based position k
MatchesAt(s, k, h) ==
  /\ k + Len(h) <= Len(s)
  /\ \A j \in 1..Len(h) : s[k + j] = h[j]

StartsWith(s, h) == MatchesAt(s, 0, h)

\* String.prototype.includes
Includes(s, h) == \E k \in 0..Len(s) : MatchesAt(s, k, h)

\* Position of the first character of s at or after i that is in set, or
\* Len(s) + 1 when there is none.
NextIn(s, i, set) ==
  LET ks == {k \in i..Len(s) : s[k] \in set}
  IN IF ks = {} THEN Len(s) + 1 ELSE CHOOSE k \in ks : \A j \in ks : k <= j

\* Position of the first character of s at or after i that is not in set, or
\* Len(s) + 1 when there is none.
NextNotIn(s, i, set) ==
  LET ks == {k \in i..Len(s) : s[k] \notin set}
  IN IF ks = {} THEN Len(s) + 1 ELSE CHOOSE k \in ks : \A j \in ks : k <= j

RECURSIVE SplitAcc(_, _, _, _, _)
SplitAcc(s, i, acc, seps, runs) ==
  LET n == NextIn(s, i, seps)
      piece == SubSeq(s, i, n - 1)
  IN IF n > Len(s) THEN Append(acc, piece)
     ELSE SplitAcc(s, IF runs THEN NextNotIn(s, n, seps) ELSE n + 1, Append(acc, piece), seps, runs)

\* s.split(c) for a one-character separator among seps: every separator
\* character separates, so adjacent separators yield empty pieces.
SplitChar(s, seps) == SplitAcc(s, 1, <<>>, seps, FALSE)

\* s.split(/[seps]+/): a run of separator characters is one separator; a
\* leading or trailing run still yields an empty first or last piece.
SplitRuns(s, seps) == SplitAcc(s, 1, <<>>, seps, TRUE)

RECURSIVE Join(_, _)
\* Array.prototype.join(sep)
Join(parts, sep) ==
  IF Len(parts) = 0 THEN <<>>
  ELSE IF Len(parts) = 1 THEN parts[1]
  ELSE parts[1] \o sep \o Join(Tail(parts), sep)

RECURSIVE Concat(_)
\* Array.prototype.join('')
Concat(parts) == IF Len(parts) = 0 THEN <<>> ELSE parts[1] \o Concat(Tail(parts))

RECURSIVE ReplaceChar(_, _, _)
\* s.replace(/c/g, by) for a one-character pattern c
ReplaceChar(s, c, by) ==
  LET n == NextIn(s, 1, {c})
  IN IF n > Len(s) THEN s
     ELSE SubSeq(s, 1, n - 1) \o by \o ReplaceChar(SubSeq(s, n + 1, Len(s)), c, by)

\* Array.prototype.filter(Boolean) on an array of strings
RECURSIVE FilterNonEmpty(_)
FilterNonEmpty(parts) ==
  IF Len(parts) = 0 THEN <<>>
  ELSE (IF Len(parts[1]) > 0 THEN <<parts[1]>> ELSE <<>>) \o FilterNonEmpty(Tail(parts))

(***************************************************************************)
(* sanitize-html, as the code calls it.  The library parses its input as   *)
(* HTML: a tag is dropped unless its name is allowed, the content of a     *)
(* script, style, textarea or option element is dropped with it, and text  *)
(* is emitted with &, < and > encoded as entities.                         *)
(***************************************************************************)

Lt == <<"&", "l", "t", ";">>

Gt == <<"&", "g", "t", ";">>

Amp == <<"&", "a", "m", "p", ";">>

Quot == <<"&", "q", "u", "o", "t", ";">>

\* sanitize-html's nonTextTags default
NonTextTags == {<<"s", "c", "r", "i", "p", "t">>, <<"s", "t", "y", "l", "e">>, <<"t", "e", "x", "t", "a", "r", "e", "a">>, <<"o", "p", "t", "i", "o", "n">>}

\* sanitizeHtml.defaults.allowedTags, restricted to the tag names the model's
\* texts use
DefaultAllowedTags == {<<"b">>, <<"i">>, <<"p">>, <<"d", "i", "v">>, <<"s", "p", "a", "n">>}

\* A "<" opens a tag when a letter, "/" plus a letter, or "!" follows it;
\* otherwise the parser keeps it as text.
IsTagStart(s, i) ==
  /\ i < Len(s)
  /\ \/ s[i + 1] \in Letters
     \/ s[i + 1] = "!"
     \/ s[i + 1] = "/" /\ i + 1 < Len(s) /\ s[i + 2] \in Letters

\* Position of the ">" that ends the tag opened at i, or 0 when the input ends
\* inside the tag.
TagEnd(s, i) ==
  IF \E e \in i..Len(s) : s[e] = ">"
  THEN CHOOSE e \in i..Len(s) : s[e] = ">" /\ \A j \in i..(e - 1) : s[j] # ">"
  ELSE 0

IsClosing(s, i) == s[i + 1] = "/"

\* The lower-cased name of the tag opened at i and ended at e.
TagName(s, i, e) ==
  LET b == IF IsClosing(s, i) THEN i + 2 ELSE i + 1
      stop == CHOOSE k \in b..e : (s[k] \in WS \cup {"/", ">"}) /\ \A j \in b..(k - 1) : s[j] \notin WS \cup {"/", ">"}
  IN ToLowerCase(Slice(s, b - 1, stop - 1))

\* Position of the ">" ending the first closing tag </nm ...> at or after i,
\* or 0 when there is none.
CloseTagEnd(s, i, nm) ==
  LET opens == {k \in i..Len(s) : MatchesAt(ToLowerCase(s), k - 1, <<"<", "/">> \o nm)}
  IN IF opens = {} THEN 0
     ELSE LET k == CHOOSE k \in opens : \A j \in opens : k <= j
          IN TagEnd(s, k)

\* The entity reference starting at position i ("&"), if it is one the parser
\* decodes: it is decoded and encoded again on output.
EntityAt(s, i) ==
  IF MatchesAt(s, i - 1, Lt) THEN [len |-> 4, out |-> Lt]
  ELSE IF MatchesAt(s, i - 1, Gt) THEN [len |-> 4, out |-> Gt]
  ELSE IF MatchesAt(s, i - 1, Amp) THEN [len |-> 5, out |-> Amp]
  ELSE IF MatchesAt(s, i - 1, Quot) THEN [len |-> 6, out |-> <<"\"">>]
  ELSE [len |-> 1, out |-> Amp]

RECURSIVE San(_, _, _, _)
San(s, i, out, allowed) ==
  IF i > Len(s) THEN out
  ELSE IF s[i] = "<"
  THEN IF IsTagStart(s, i)
       THEN LET e == TagEnd(s, i)
            IN IF e = 0 THEN out
               ELSE LET nm == TagName(s, i, e)
                    IN IF ~IsClosing(s, i) /\ nm \in NonTextTags /\ nm \notin allowed
                       THEN LET c == CloseTagEnd(s, e + 1, nm)
                            IN IF c = 0 THEN out ELSE San(s, c + 1, out, allowed)
                       ELSE IF nm \in allowed
                       THEN San(s, e + 1, out \o (IF IsClosing(s, i) THEN <<"<", "/">> ELSE <<"<">>) \o nm \o <<">">>, allowed)
                       ELSE San(s, e + 1, out, allowed)
       ELSE San(s, i + 1, out \o Lt, allowed)
  ELSE IF s[i] = ">" THEN San(s, i + 1, out \o Gt, allowed)
  ELSE IF s[i] = "&"
  THEN LET en == EntityAt(s, i) IN San(s, i + en.len, out \o en.out, allowed)
  ELSE LET n == NextIn(s, i, {"<", ">", "&"})
       IN San(s, n, out \o SubSeq(s, i, n - 1), allowed)

\* sanitizeHtml(s, { allowedTags: [], allowedAttributes: {} })
SanitizeNoTags(s) == San(s, 1, <<>>, {})

\* sanitizeHtml(s) with the library's default options
SanitizeDefault(s) == San(s, 1, <<>>, DefaultAllowedTags)

\* cleanText(t)
CleanText(t) ==
  IF Len(t) = 0 THEN <<>>
  ELSE Trim(ReplaceChar(SanitizeNoTags(t), "\r", <<>>))

\* String literals of the code.
TRUE_STR == <<"t", "r", "u", "e">>

FALSE_STR == <<"f", "a", "l", "s", "e">>

NULL_STR == <<"n", "u", "l", "l">>

UNDEFINED_STR == <<"u", "n", "d", "e", "f", "i", "n", "e", "d">>

BR == <<"<", "b", "r", ">">>

NoSkills == <<"N", "o", " ", "s", "k", "i", "l", "l", "s", " ", "f", "o", "u", "n", "d">>

DefaultPrimary == <<"#", "1", "1", "1", "1", "1", "1">>

NoExperience == <<"N", "o", " ", "e", "x", "p", "e", "r", "i", "e", "n", "c", "e", " ", "s", "e", "c", "t", "i", "o", "n", " ", "f", "o", "u", "n", "d", ".">>

NoProjects == <<"N", "o", " ", "p", "r", "o", "j", "e", "c", "t", "s", " ", "l", "i", "s", "t", "e", "d", ".">>

NoEducation == <<"N", "o", " ", "e", "d", "u", "c", "a", "t", "i", "o", "n", " ", "s", "e", "c", "t", "i", "o", "n", " ", "f", "o", "u", "n", "d", ".">>

NoAchievements == <<"N", "o", " ", "a", "c", "h", "i", "e", "v", "e", "m", "e", "n", "t", "s", " ", "l", "i", "s", "t", "e", "d", ".">>

MODERN == <<"m", "o", "d", "e", "r", "n">>

BLACK == <<"b", "l", "a", "c", "k">>

ChipOpen == "<span class=\"skill-chip\">"

ChipClose == "</span>"

(***************************************************************************)
(* JavaScript values of a JSON request body: the handler passes themeType, *)
(* themeColors and professional to the renderer as it got them.            *)
(***************************************************************************)

JsStr(s) == [t |-> "string", s |-> s]

JsBool(b) == [t |-> "boolean", b |-> b]

JsNum(n) == [t |-> "number", n |-> n]

JsNull == [t |-> "null"]

JsUndefined == [t |-> "undefined"]

\* ToBoolean(v)
Truthy(v) ==
  CASE v.t = "string" -> Len(v.s) > 0
    [] v.t = "boolean" -> v.b
    [] v.t = "number" -> v.n # 0
    [] OTHER -> FALSE

\* String(v); a number of the model is a single digit.
Digits == <<"0", "1", "2", "3", "4", "5", "6", "7", "8", "9">>

ToString(v) ==
  CASE v.t = "string" -> v.s
    [] v.t = "boolean" -> IF v.b THEN TRUE_STR ELSE FALSE_STR
    [] v.t = "number" -> <<Digits[v.n + 1]>>
    [] v.t = "null" -> NULL_STR
    [] OTHER -> UNDEFINED_STR

\* A default parameter or destructuring default: it replaces undefined only.
WithDefault(v, d) == IF v.t = "undefined" THEN d ELSE v

(***************************************************************************)
(* generateFullHtml (src/server.js:214-280).  The page is the template     *)
(* literal: its fixed chunks, each kept as one element, alternate with the *)
(* interpolated values, which are character sequences.                     *)
(***************************************************************************)

\* esc without the sanitizing step: only the newline conversion.
EscNewlinesOnly(s) == ReplaceChar(s, "\n", BR)

\* const esc = s => sanitizeHtml(String(s || ''), {allowedTags: [], ...}).replace(/\n/g, '<br>')
Esc(s) == ReplaceChar(SanitizeNoTags(s), "\n", BR)

\* s || d for strings
OrElse(s, d) == IF Len(s) > 0 THEN s ELSE d

\* (sections.name && sections.name[0]) || 'A'
AvatarInitial(name) == IF Len(name) > 0 THEN <<name[1]>> ELSE <<"A">>

\* One chip per piece of the split, whatever the piece holds.
RECURSIVE Chips(_)
Chips(tokens) ==
  IF Len(tokens) = 0 THEN <<>>
  ELSE <<ChipOpen>> \o Esc(Trim(tokens[1])) \o <<ChipClose>> \o Chips(Tail(tokens))

\* sections.skills ? sections.skills.split(/[,\n]+/).map(...).join('') : 'No skills found'
SkillsSlot(skills) ==
  IF Len(skills) > 0 THEN Chips(SplitRuns(skills, {",", "\n"})) ELSE NoSkills

\* (themeColors || '').split(/\s+/)[0] || '#111111'
Primary(themeColors) ==
  LET str == IF Truthy(themeColors) THEN themeColors.s ELSE <<>>
  IN OrElse(SplitRuns(str, WS)[1], DefaultPrimary)

\* (themeColors || '').split is not a function when themeColors is a truthy
\* value that is not a string: the call throws a TypeError.
RenderThrows(themeColors) == Truthy(themeColors) /\ themeColors.t # "string"

\* The interpolated values of the template, in template order.
Slots(sections, themeType, themeColors, professional) ==
  [title |-> Esc(sections.name),
   primary |-> Primary(themeColors),
   avatar |-> AvatarInitial(sections.name),
   h1 |-> Esc(sections.name),
   meta |-> Esc(sections.summary),
   experience |-> Esc(OrElse(sections.experience, NoExperience)),
   projects |-> Esc(OrElse(sections.projects, NoProjects)),
   education |-> Esc(OrElse(sections.education, NoEducation)),
   achievements |-> Esc(OrElse(sections.achievements, NoAchievements)),
   skills |-> SkillsSlot(sections.skills),
   themeType |-> SanitizeDefault(ToString(themeType)),
   themeColors |-> SanitizeDefault(ToString(themeColors)),
   professional |-> ToString(professional)]

\* The fixed chunks of the template literal, in order; "..." stands for the
\* meta tags and the style sheet, which hold no interpolation.
TplHead == "<!doctype html><html lang=\"en\"><head>...<title>"

TplPrimary == " - CV Website</title><style>:root{--primary:"

TplAvatar == ";--accent:#6c5ce7;--bg:#ffffff;--text:#222}...</style></head><body><div class=\"wrap\"><header><div class=\"avatar\">"

TplH1 == "</div><div><h1>"

TplMeta == "</h1><div class=\"meta\">"

TplExperience == "</div></div></header><div class=\"section\"><h2>Experience</h2><div class=\"card\"><pre>"

TplProjects == "</pre></div></div><div class=\"section\"><h2>Projects</h2><div class=\"card\"><pre>"

TplEducation == "</pre></div></div><div class=\"section\"><h2>Education</h2><div class=\"card\"><pre>"

TplAchievements == "</pre></div></div><div class=\"section\"><h2>Achievements</h2><div class=\"card\"><pre>"

TplSkills == "</pre></div></div><div class=\"section\"><h2>Skills</h2><div class=\"card\">"

TplThemeType == "</div></div><footer>Generated by HTML-Generator - Theme: "

TplThemeColors == " - Colors: "

TplProfessional == " - Professional: "

TplEnd == "</footer></div></body></html>"

Template(sl) ==
  <<TplHead>> \o sl.title
  \o <<TplPrimary>> \o sl.primary
  \o <<TplAvatar>> \o sl.avatar
  \o <<TplH1>> \o sl.h1
  \o <<TplMeta>> \o sl.meta
  \o <<TplExperience>> \o sl.experience
  \o <<TplProjects>> \o sl.projects
  \o <<TplEducation>> \o sl.education
  \o <<TplAchievements>> \o sl.achievements
  \o <<TplSkills>> \o sl.skills
  \o <<TplThemeType>> \o sl.themeType
  \o <<TplThemeColors>> \o sl.themeColors
  \o <<TplProfessional>> \o sl.professional
  \o <<TplEnd>>

\* generateFullHtml(sections, themeType = 'modern', themeColors = 'black', professional = true):
\* the page, or the exception the call ends with.
GenerateFullHtml(sections, themeType, themeColors, professional) ==
  LET tt == WithDefault(themeType, JsStr(MODERN))
      tc == WithDefault(themeColors, JsStr(BLACK))
      pr == WithDefault(professional, JsBool(TRUE))
  IN IF RenderThrows(tc)
     THEN [threw |-> TRUE, html |-> <<>>]
     ELSE [threw |-> FALSE, html |-> Template(Slots(sections, tt, tc, pr))]

(***************************************************************************)
(* parseCvSections (src/server.js:172-212).                                *)
(***************************************************************************)

CandidateName == <<"C", "a", "n", "d", "i", "d", "a", "t", "e", " ", "N", "a", "m", "e">>

\* The heading list inside extract (src/server.js:192)
GlobalHeadings == <<<<"e", "x", "p", "e", "r", "i", "e", "n", "c", "e">>, <<"e", "d", "u", "c", "a", "t", "i", "o", "n">>, <<"s", "k", "i", "l", "l", "s">>, <<"p", "r", "o", "j", "e", "c", "t", "s">>, <<"a", "c", "h", "i", "e", "v", "e", "m", "e", "n", "t", "s">>, <<"c", "e", "r", "t", "i", "f", "i", "c", "a", "t">>, <<"c", "o", "n", "t", "a", "c", "t">>, <<"s", "u", "m", "m", "a", "r", "y">>>>

ExperienceHeaders == <<<<"e", "x", "p", "e", "r", "i", "e", "n", "c", "e">>, <<"w", "o", "r", "k", " ", "e", "x", "p", "e", "r", "i", "e", "n", "c", "e">>, <<"e", "m", "p", "l", "o", "y", "m", "e", "n", "t">>>>

EducationHeaders == <<<<"e", "d", "u", "c", "a", "t", "i", "o", "n">>, <<"a", "c", "a", "d", "e", "m", "i", "c">>, <<"d", "e", "g", "r", "e", "e">>>>

SkillsHeaders == <<<<"s", "k", "i", "l", "l", "s">>, <<"t", "e", "c", "h", "n", "i", "c", "a", "l", " ", "s", "k", "i", "l", "l", "s">>, <<"s", "k", "i", "l", "l">>>>

ProjectsHeaders == <<<<"p", "r", "o", "j", "e", "c", "t", "s">>, <<"p", "r", "o", "j", "e", "c", "t">>>>

AchievementsHeaders == <<<<"a", "c", "h", "i", "e", "v", "e", "m", "e", "n", "t", "s">>, <<"a", "w", "a", "r", "d", "s">>, <<"h", "o", "n", "o", "u", "r", "s">>>>

ContactHeaders == <<<<"c", "o", "n", "t", "a", "c", "t">>, <<"e", "m", "a", "i", "l">>, <<"p", "h", "o", "n", "e">>, <<"l", "i", "n", "k", "e", "d", "i", "n">>>>

\* array.some(h => l.includes(h))
IncludesAny(l, hs) == \E k \in 1..Len(hs) : Includes(l, hs[k])

\* array.map(l => l.trim())
RECURSIVE TrimAll(_)
TrimAll(parts) == IF Len(parts) = 0 THEN <<>> ELSE <<Trim(parts[1])>> \o TrimAll(Tail(parts))

\* trimmed.split('\n').map(l => l.trim()).filter(Boolean), where
\* trimmed = (text || '').replace(/\r/g, '').trim()
Lines(text) ==
  LET trimmed == Trim(ReplaceChar(text, "\r", <<>>))
  IN FilterNonEmpty(TrimAll(SplitChar(trimmed, {"\n"})))

\* /function\s*\(|document\.|cdn-cgi|__CF\$|https?:\/\//i.test(l)
IsNoiseLine(l) ==
  LET lo == ToLowerCase(l)
  IN \/ \E k \in 0..Len(lo) :
          /\ MatchesAt(lo, k, <<"f", "u", "n", "c", "t", "i", "o", "n">>)
          /\ \E m \in (k + 9)..Len(lo) : lo[m] = "(" /\ \A j \in (k + 9)..(m - 1) : lo[j] \in WS
     \/ Includes(lo, <<"d", "o", "c", "u", "m", "e", "n", "t", ".">>)
     \/ Includes(lo, <<"c", "d", "n", "-", "c", "g", "i">>)
     \/ Includes(lo, <<"_", "_", "c", "f", "$">>)
     \/ Includes(lo, <<"h", "t", "t", "p", ":", "/", "/">>)
     \/ Includes(lo, <<"h", "t", "t", "p", "s", ":", "/", "/">>)

\* The test of the name loop: not noise, l.length > 3 and l.split(' ').length <= 8
QualifiesAsName(l) ==
  /\ ~IsNoiseLine(l)
  /\ Len(l) > 3
  /\ Len(SplitChar(l, {" "})) <= 8

\* The name loop with let name = '' as its start.
ChooseNameOrEmpty(lines) ==
  LET cands == {i \in 1..Min(6, Len(lines)) : QualifiesAsName(lines[i])}
  IN IF cands = {} THEN <<>>
     ELSE lines[CHOOSE i \in cands : \A j \in cands : i <= j]

\* The name loop over the first Math.min(6, lines.length) lines
\* (src/server.js:176-181).
ChooseName(lines) ==
  LET cands == {i \in 1..Min(6, Len(lines)) : QualifiesAsName(lines[i])}
  IN IF cands = {} THEN CandidateName
     ELSE lines[CHOOSE i \in cands : \A j \in cands : i <= j]

\* lines.findIndex(l => l === name), zero-based, -1 when no line equals name
FindIndexEq(lines, name) ==
  LET hits == {i \in 1..Len(lines) : lines[i] = name}
  IN IF hits = {} THEN -1 ELSE (CHOOSE i \in hits : \A j \in hits : i <= j) - 1

\* lines.slice(nameIndex + 1, nameIndex + 6).join(' ') || ''
SummaryOf(lines, name) ==
  LET nameIndex == FindIndexEq(lines, name)
  IN Join(Slice(lines, nameIndex + 1, nameIndex + 6), <<" ">>)

\* extract with the heading line kept in the value: slice(idx, end).
ExtractFromHeading(lines, headers) ==
  LET lower == [i \in 1..Len(lines) |-> ToLowerCase(lines[i])]
      found == {i \in 1..Len(lower) : IncludesAny(lower[i], headers)}
  IN IF found = {} THEN <<>>
     ELSE LET idx == (CHOOSE i \in found : \A j \in found : i <= j) - 1
              stops == {j \in (idx + 1)..(Len(lower) - 1) : IncludesAny(lower[j + 1], GlobalHeadings)}
              end == IF stops = {} THEN Len(lines) ELSE CHOOSE j \in stops : \A k \in stops : j <= k
          IN Join(Slice(lines, idx, end), <<"\n">>)

\* function extract(headers) (src/server.js:187-195)
Extract(lines, headers) ==
  LET lower == [i \in 1..Len(lines) |-> ToLowerCase(lines[i])]
      found == {i \in 1..Len(lower) : IncludesAny(lower[i], headers)}
  IN IF found = {} THEN <<>>
     ELSE LET idx == (CHOOSE i \in found : \A j \in found : i <= j) - 1
              stops == {j \in (idx + 1)..(Len(lower) - 1) : IncludesAny(lower[j + 1], GlobalHeadings)}
              end == IF stops = {} THEN Len(lines) ELSE CHOOSE j \in stops : \A k \in stops : j <= k
          IN Join(Slice(lines, idx + 1, end), <<"\n">>)

\* The fallback without the cap at 60 lines: lines.slice(6).
ExperienceFallbackNoCap(lines, experience) ==
  IF Len(experience) = 0 /\ Len(lines) > 6
  THEN Join(Slice(lines, 6, Len(lines)), <<"\n">>)
  ELSE experience

\* if (!sections.experience && lines.length > 6) ... (src/server.js:209)
ExperienceFallback(lines, experience) ==
  IF Len(experience) = 0 /\ Len(lines) > 6
  THEN Join(Slice(lines, 6, Min(Len(lines), 60)), <<"\n">>)
  ELSE experience

\* if (!sections.summary && lines.length > 1) ... (src/server.js:210)
SummaryFallback(lines, summary) ==
  IF Len(summary) = 0 /\ Len(lines) > 1
  THEN Join(Slice(lines, 1, 6), <<" ">>)
  ELSE summary

\* raw taken from the trimmed text instead of the argument.
RawTrimmed(text) == Trim(ReplaceChar(text, "\r", <<>>))

\* The value of sections.raw
RawOf(text) == text

ParseCvSections(text) ==
  LET lines == Lines(text)
      name == ChooseName(lines)
  IN [raw |-> RawOf(text),
      name |-> name,
      summary |-> SummaryFallback(lines, SummaryOf(lines, name)),
      experience |-> ExperienceFallback(lines, Extract(lines, ExperienceHeaders)),
      education |-> Extract(lines, EducationHeaders),
      skills |-> Extract(lines, SkillsHeaders),
      projects |-> Extract(lines, ProjectsHeaders),
      achievements |-> Extract(lines, AchievementsHeaders),
      contact |-> Extract(lines, ContactHeaders)]

(***************************************************************************)
(* The extractors (src/server.js:58-151).  What the libraries and the file *)
(* system return is given by the environment:                              *)
(*   a page  [status, nodes, body]: the outcome of fetch, the text of the  *)
(*           nodes each selector matches, and the text of <body>           *)
(*   a file  [exists, ext, mammoth, zip, pdf, utf8]: whether the path      *)
(*           exists, its extension, and what each reader gets from it      *)
(* A reader's outcome is [ok |-> TRUE, value |-> text] or, when the call   *)
(* throws, [ok |-> FALSE].                                                 *)
(***************************************************************************)

Returns(text) == [ok |-> TRUE, value |-> text]

Throws == [ok |-> FALSE]

\* The selectors list of fetchDeepseekText (src/server.js:71)
Selectors == <<"article", ".chat", ".message", ".prose", "#root", "main", ".chat-message", ".message-content">>

\* The noise list of the body fallback (src/server.js:87)
BodyNoise == <<<<"S", "h", "a", "r", "e">>, <<"C", "o", "p", "i", "e", "d">>, <<"O", "p", "e", "n", "A", "I">>, <<"S", "i", "g", "n", " ", "i", "n">>, <<"S", "i", "g", "n", " ", "u", "p">>, <<"D", "e", "e", "p", "S", "e", "e", "k">>, <<"H", "o", "m", "e">>, <<"A", "b", "o", "u", "t">>, <<"c", "o", "o", "k", "i", "e">>, <<"c", "d", "n", "-", "c", "g", "i">>, <<"_", "_", "C", "F", "$">>>>

\* /function\s*\(|document\.|cdn-cgi|__CF\$|eval\(/i.test(l)
IsScriptLikeLine(l) ==
  LET lo == ToLowerCase(l)
  IN \/ \E k \in 0..Len(lo) :
          /\ MatchesAt(lo, k, <<"f", "u", "n", "c", "t", "i", "o", "n">>)
          /\ \E m \in (k + 9)..Len(lo) : lo[m] = "(" /\ \A j \in (k + 9)..(m - 1) : lo[j] \in WS
     \/ Includes(lo, <<"d", "o", "c", "u", "m", "e", "n", "t", ".">>)
     \/ Includes(lo, <<"c", "d", "n", "-", "c", "g", "i">>)
     \/ Includes(lo, <<"_", "_", "c", "f", "$">>)
     \/ Includes(lo, <<"e", "v", "a", "l", "(">>)

RECURSIVE ReplaceRunsFrom(_, _, _, _, _)
ReplaceRunsFrom(s, i, set, atLeast, by) ==
  IF i > Len(s) THEN <<>>
  ELSE IF s[i] \in set
       THEN LET stop == NextNotIn(s, i, set)
            IN (IF stop - i >= atLeast THEN by ELSE SubSeq(s, i, stop - 1))
               \o ReplaceRunsFrom(s, stop, set, atLeast, by)
       ELSE LET n == NextIn(s, i, set)
            IN SubSeq(s, i, n - 1) \o ReplaceRunsFrom(s, n, set, atLeast, by)

\* s.replace(/[set]{atLeast,}/g, by)
ReplaceRuns(s, set, atLeast, by) == ReplaceRunsFrom(s, 1, set, atLeast, by)

RECURSIVE CollectNodes(_, _)
\* el.each: a node's cleaned text is appended when it is longer than 25.
CollectNodes(nodes, collected) ==
  IF Len(nodes) = 0 THEN collected
  ELSE LET txt == CleanText(nodes[1])
       IN CollectNodes(Tail(nodes), IF Len(txt) > 25 THEN collected \o txt \o <<"\n", "\n">> ELSE collected)

RECURSIVE CollectSelectors(_, _, _)
\* The loop over selectors: it stops after the first selector that leaves
\* more than 400 characters collected.
CollectSelectors(page, k, collected) ==
  IF k > Len(Selectors) THEN collected
  ELSE LET got == CollectNodes(page.nodes[k], collected)
       IN IF Len(got) > 400 THEN got ELSE CollectSelectors(page, k + 1, got)

RECURSIVE KeepFrom(_, _, _)
KeepFrom(ls, i, kept) ==
  IF i > Len(ls) THEN <<>>
  ELSE (IF i \in kept THEN <<ls[i]>> ELSE <<>>) \o KeepFrom(ls, i + 1, kept)

\* Array.prototype.filter on lines; kept is the set of positions for which
\* the callback returns true.
KeepLines(ls, kept) == KeepFrom(ls, 1, kept)

\* The body fallback (src/server.js:85-94)
BodyFallback(page) ==
  LET bodyText == Trim(ReplaceRuns(CleanText(page.body), WS, 2, <<"\n">>))
      ls == SplitChar(bodyText, {"\n"})
      kept == {i \in 1..Len(ls) : Len(Trim(ls[i])) >= 4 /\ ~IncludesAny(Trim(ls[i]), BodyNoise)}
  IN Join(KeepLines(ls, kept), <<"\n">>)

\* The final cleanup (src/server.js:96-100)
FinalCleanup(collected) ==
  LET ls == SplitChar(collected, {"\n"})
      kept == {i \in 1..Len(ls) :
                 /\ ~IsScriptLikeLine(ls[i])
                 /\ ~(Len(ls[i]) > 200 /\ \A k \in 1..Len(ls[i]) : ls[i][k] \notin WS)
                 /\ Len(Trim(ls[i])) > 0}
  IN Trim(ReplaceRuns(Join(KeepLines(ls, kept), <<"\n">>), {"\n"}, 3, <<"\n", "\n">>))

\* fetchDeepseekText without the test of resp.ok: the body of an error page
\* is scraped like any other.
FetchDeepseekTextAnyStatus(page) ==
  IF page.status = "throws" THEN <<>>
  ELSE LET collected == CollectSelectors(page, 1, <<>>)
       IN FinalCleanup(IF Len(collected) < 200 THEN BodyFallback(page) ELSE collected)

\* fetchDeepseekText(url): '' when fetch throws or the status is not OK.
FetchDeepseekText(page) ==
  IF page.status # "ok" THEN <<>>
  ELSE LET collected == CollectSelectors(page, 1, <<>>)
       IN FinalCleanup(IF Len(collected) < 200 THEN BodyFallback(page) ELSE collected)

RECURSIVE ReplaceTagsFrom(_, _)
ReplaceTagsFrom(s, i) ==
  IF i > Len(s) THEN <<>>
  ELSE IF s[i] = "<"
       THEN IF i < Len(s) /\ s[i + 1] # ">" /\ NextIn(s, i + 2, {">"}) <= Len(s)
            THEN <<" ">> \o ReplaceTagsFrom(s, NextIn(s, i + 2, {">"}) + 1)
            ELSE <<"<">> \o ReplaceTagsFrom(s, i + 1)
       ELSE LET n == NextIn(s, i, {"<"})
            IN SubSeq(s, i, n - 1) \o ReplaceTagsFrom(s, n)

\* xml.replace(/<[^>]+>/g, ' ')
ReplaceTags(s) == ReplaceTagsFrom(s, 1)

\* extractTextFromDocx(localPath)
ExtractTextFromDocx(file) ==
  IF file.mammoth.ok THEN CleanText(file.mammoth.value) ELSE <<>>

\* extractTextFromDocxZipFallback(localPath); file.zip is the content of
\* word/document.xml, with value "none" when the archive has no such entry.
ExtractTextFromDocxZipFallback(file) ==
  IF ~file.zip.ok \/ file.zip.value = "none" THEN <<>>
  ELSE CleanText(Trim(ReplaceRuns(ReplaceTags(file.zip.value), WS, 2, <<" ">>)))

\* extractTextFromPdf(localPath)
ExtractTextFromPdf(file, pdfParse) ==
  IF ~pdfParse THEN <<>>
  ELSE IF file.pdf.ok /\ Len(file.pdf.value) > 0 THEN CleanText(file.pdf.value) ELSE <<>>

(***************************************************************************)
(* The state.  Each variable is one part of the program:                  *)
(*   render  a call of generateFullHtml: its arguments and its result     *)
(*   parse   a call of parseCvSections: its argument and its result       *)
(*   req     a POST /generate request being handled                       *)
(*   env     what the handler reads: the shared page, the uploaded file,  *)
(*           the capability flag pdfParse                                  *)
(*   pub     a run of the publish script and the repository it writes to  *)
(* A part that a specification does not run stays Idle.                   *)
(***************************************************************************)

Idle == [pc |-> "idle"]

Fields == {"name", "summary", "experience", "education", "skills", "projects", "achievements", "contact"}

(***************************************************************************)
(* Calls of generateFullHtml.                                              *)
(***************************************************************************)

\* Field values a CV can hold.
ScriptText == <<"<", "s", "c", "r", "i", "p", "t", ">", "a", "l", "e", "r", "t", "(", "1", ")", "<", "/", "s", "c", "r", "i", "p", "t", ">">>

PayScriptInText == <<"x", "<", "s", "c", "r", "i", "p", "t", ">", "a", "l", "e", "r", "t", "(", "1", ")", "<", "/", "s", "c", "r", "i", "p", "t", ">", "y">>

PayScriptUpper == <<"<", "S", "C", "R", "I", "P", "T", ">", "a", "l", "e", "r", "t", "(", "1", ")", "<", "/", "S", "C", "R", "I", "P", "T", ">">>

PayTagName == <<"<", "b", ">", "J", "o">>

PayLessThan == <<"a", " ", "<", " ", "b">>

PayAmpName == <<"&", "C", "o">>

PayTwoLines == <<"a", "\n", "b">>

PaySkills == <<"G", "o", ",", " ", "R", "u", "s", "t", "\n", "P", "y", "t", "h", "o", "n">>

PaySkillsTrailing == <<"G", "o", ",", " ", "R", "u", "s", "t", ",">>

PaySkillsLeading == <<",", "G", "o">>

PaySkillsBlank == <<"G", "o", ",", " ", ",", "R", "u", "s", "t">>

PayPlain == <<"J", "a", "n", "e">>

Payloads == {ScriptText, PayScriptInText, PayScriptUpper, PayTagName, PayLessThan, PayAmpName, PayTwoLines, PaySkills, PaySkillsTrailing, PaySkillsLeading, PaySkillsBlank, PayPlain, <<>>}

EmptySections ==
  [raw |-> <<>>, name |-> <<>>, summary |-> <<>>, experience |-> <<>>, education |-> <<>>,
   skills |-> <<>>, projects |-> <<>>, achievements |-> <<>>, contact |-> <<>>]

FullSections ==
  [raw |-> <<>>, name |-> PayPlain, summary |-> PayTwoLines, experience |-> PayLessThan, education |-> <<"B", "A">>,
   skills |-> PaySkills, projects |-> <<"P">>, achievements |-> <<"W">>, contact |-> <<"e">>]

\* The CvSections values rendered: a base record with one field replaced.
SectionsInputs ==
  {[base EXCEPT ![f] = v] : base \in {EmptySections, FullSections}, f \in Fields, v \in Payloads}

\* The (themeType, themeColors, professional) triples rendered: absent values,
\* strings, and the other values a JSON body can carry.
ConfigInputs ==
  {<<JsUndefined, JsUndefined, JsUndefined>>,
   <<JsStr(<<"p", "h", "o", "t", "o", "g", "r", "a", "p", "h", "e", "r">>), JsStr(<<"w", "h", "i", "t", "e", " ", "b", "l", "u", "e">>), JsBool(TRUE)>>,
   <<JsStr(PayTagName), JsStr(<<" ", "r", "e", "d">>), JsBool(FALSE)>>,
   <<JsNull, JsNull, JsNull>>,
   <<JsUndefined, JsNum(5), JsUndefined>>}

InitRender ==
  /\ \E sec \in SectionsInputs, cfg \in ConfigInputs :
       render = [pc |-> "ready", sections |-> sec, themeType |-> cfg[1], themeColors |-> cfg[2],
                 professional |-> cfg[3], result |-> [threw |-> FALSE, html |-> <<>>]]
  /\ parse = Idle /\ req = Idle /\ env = Idle /\ pub = Idle

\* One call of generateFullHtml with the arguments drawn.
RenderCall ==
  /\ render.pc = "ready"
  /\ render' = [render EXCEPT !.pc = "done",
                  !.result = GenerateFullHtml(render.sections, render.themeType, render.themeColors, render.professional)]
  /\ UNCHANGED <<parse, req, env, pub>>

NextRender == RenderCall

SpecRender == InitRender /\ [][NextRender]_vars

(***************************************************************************)
(* Reading a rendered page.                                                *)
(***************************************************************************)

TemplateChunks ==
  {TplHead, TplPrimary, TplAvatar, TplH1, TplMeta, TplExperience, TplProjects, TplEducation,
   TplAchievements, TplSkills, TplThemeType, TplThemeColors, TplProfessional, TplEnd}

\* The chunks that are followed by a value taken from a CvSections field.
FieldSlotChunks ==
  {TplHead, TplAvatar, TplH1, TplMeta, TplExperience, TplProjects, TplEducation, TplAchievements, TplSkills}

\* Position i of the page holds a character that came from a field slot: the
\* nearest template chunk before it opens a field slot.
FieldDerived(html, i) ==
  /\ html[i] \notin TemplateChunks \cup {ChipOpen, ChipClose}
  /\ \E j \in 1..(i - 1) :
       /\ html[j] \in FieldSlotChunks
       /\ \A k \in (j + 1)..(i - 1) : html[k] \notin TemplateChunks

\* The character at position i is what esc can produce: a markup character
\* only as part of an entity or of the <br> that replaces a newline.
EscapedAt(html, i) ==
  /\ html[i] = "<" => MatchesAt(html, i - 1, BR)
  /\ html[i] = ">" => i >= 4 /\ MatchesAt(html, i - 4, BR)
  /\ html[i] = "&" => \/ MatchesAt(html, i - 1, Lt) \/ MatchesAt(html, i - 1, Gt)
                      \/ MatchesAt(html, i - 1, Amp)

HasScriptTag(html) == Includes(ToLowerCase(html), <<"<", "s", "c", "r", "i", "p", "t">>)

MarkupFree(s) == \A i \in 1..Len(s) : s[i] \notin {"<", ">", "&"}

ConfigMarkupFree(r) ==
  /\ MarkupFree(ToString(r.themeType))
  /\ MarkupFree(ToString(r.themeColors))
  /\ MarkupFree(ToString(r.professional))

Rendered == render.pc = "done" /\ ~render.result.threw

\* The contents of the chip elements of a page, in page order.
RECURSIVE ChipContentsFrom(_, _)
ChipContentsFrom(html, i) ==
  LET o == NextIn(html, i, {ChipOpen})
  IN IF o > Len(html) THEN <<>>
     ELSE LET j == NextIn(html, o + 1, {ChipClose})
          IN <<Slice(html, o, j - 1)>> \o ChipContentsFrom(html, j + 1)

ChipContents(html) == ChipContentsFrom(html, 1)

\* The maximal separator-free stretches of s that hold a character other than
\* white space: the non-empty tokens of a comma- or newline-separated list.
NonEmptyTokens(s) ==
  {<<a, b>> \in (1..Len(s)) \X (1..Len(s)) :
     /\ a <= b
     /\ \A k \in a..b : s[k] \notin {",", "\n"}
     /\ a = 1 \/ s[a - 1] \in {",", "\n"}
     /\ b = Len(s) \/ s[b + 1] \in {",", "\n"}
     /\ \E k \in a..b : s[k] \notin WS}

(***************************************************************************)
(* Properties of generateFullHtml.                                         *)
(***************************************************************************)

\* C3: when a field of the CvSections contains <script>alert(1)</script> (and
\* the configuration holds no markup), the rendered page contains no <script
\* tag.
C3_NoScriptTagFromFields ==
  (/\ Rendered
   /\ ConfigMarkupFree(render)
   /\ \E f \in Fields : Includes(render.sections[f], ScriptText))
  => ~HasScriptTag(render.result.html)

\* C3 witness: a page was rendered from a summary that holds the script text
\* inside other text.
C3_Witness ==
  /\ Rendered
  /\ ConfigMarkupFree(render)
  /\ render.sections.summary = PayScriptInText
  /\ render.sections.name = PayPlain

\* C4: every character of the page that comes from a field slot, the avatar
\* initial included, is escaped: no raw <, > or & reaches the page.
C4_FieldTextEscaped ==
  Rendered => \A i \in 1..Len(render.result.html) :
                FieldDerived(render.result.html, i) => EscapedAt(render.result.html, i)

\* C8: a non-empty skills field yields exactly one chip per non-empty token
\* of its comma- or newline-separated list, none of them empty, and
\* "Go, Rust\nPython" yields the chips Go, Rust, Python.
C8_OneChipPerNonEmptyToken ==
  (Rendered /\ Len(render.sections.skills) > 0 /\ MarkupFree(render.sections.skills))
  => LET chips == ChipContents(render.result.html)
     IN /\ \A k \in 1..Len(chips) : Len(chips[k]) > 0
        /\ Len(chips) = Cardinality(NonEmptyTokens(render.sections.skills))
        /\ render.sections.skills = PaySkills => chips = <<<<"G", "o">>, <<"R", "u", "s", "t">>, <<"P", "y", "t", "h", "o", "n">>>>

(***************************************************************************)
(* Calls of parseCvSections.  An input text is a header block, up to       *)
(* MaxBody body lines and a padding of filler lines, joined by newlines.   *)
(***************************************************************************)

LineName == <<"J", "a", "n", "e", " ", "D", "o", "e">>

LineSummary == <<"B", "u", "i", "l", "t", " ", "t", "h", "i", "n", "g", "s", ".">>

LineUrl == <<"h", "t", "t", "p", "s", ":", "/", "/", "x", ".", "y">>

LineShort == <<"a", "b">>

LineNineTokens == <<"a", " ", "b", " ", "c", " ", "d", " ", "e", " ", "f", " ", "g", " ", "h", " ", "i">>

LineFour == <<"c", "d", "e", "f">>

\* Eight words, two spaces between the first two.
LineEightWordsTwoSpaces == <<"a", " ", " ", "b", " ", "c", " ", "d", " ", "e", " ", "f", " ", "g", " ", "h">>

\* Nine words separated by tabs.
LineNineWordsTabs == <<"a", "\t", "b", "\t", "c", "\t", "d", "\t", "e", "\t", "f", "\t", "g", "\t", "h", "\t", "i">>

LineExperience == <<"E", "X", "P", "E", "R", "I", "E", "N", "C", "E">>

LineDid == <<"D", "i", "d", " ", "X">>

LineEducation == <<"E", "D", "U", "C", "A", "T", "I", "O", "N">>

LineBA == <<"B", "A">>

LineSkills == <<"S", "k", "i", "l", "l", "s">>

LineProject == <<"p", "r", "o", "j", "e", "c", "t", " ", "x">>

Headers ==
  {<<LineName, LineSummary>>,
   <<LineUrl, LineName, LineSummary>>,
   <<LineShort, LineNineTokens>>,
   <<LineShort, LineFour>>,
   <<LineName>>}

BodyLines == {LineExperience, LineDid, LineEducation, LineSkills}

MaxBody == 2

MaxPad == 58

PadSizes == {0, 4, MaxPad}

Bodies == UNION {[1..n -> BodyLines] : n \in 0..MaxBody}

\* k filler lines x, y, z, x, ...: none holds a keyword or qualifies as a name.
Padding(k) == [i \in 1..k |-> <<LowerCase[24 + (i % 3)]>>]

\* The example of the specification.
ExampleText == Join(<<LineName, LineSummary, LineExperience, LineDid, LineEducation, LineBA>>, <<"\n">>)

\* The same lines with Windows line ends, indentation and a trailing newline.
Dressed(ls) == <<" ", " ">> \o Join(ls, <<"\r", "\n", " ">>) \o <<" ", "\n">>

TextInputs ==
  {Join(h \o b \o Padding(k), <<"\n">>) : h \in Headers, b \in Bodies, k \in PadSizes}
  \cup {Dressed(h \o b) : h \in Headers, b \in Bodies}
  \cup {ExampleText, <<>>,
        Join(<<LineName, LineSummary, LineExperience, LineDid, LineExperience, LineBA>>, <<"\n">>),
        Join(<<LineName, LineSummary>> \o Padding(4) \o <<LineExperience>>, <<"\n">>),
        Join(Padding(7) \o <<CandidateName, LineDid>>, <<"\n">>),
        Join(<<LineEightWordsTwoSpaces, LineName, LineSummary>>, <<"\n">>),
        Join(<<LineNineWordsTabs, LineName, LineSummary>>, <<"\n">>),
        Join(Padding(6) \o <<LineName, LineSummary>>, <<"\n">>),
        Join(<<LineName, LineSkills, LineDid, LineProject, LineBA>>, <<"\n">>),
        Join(<<LineName, LineProject, LineBA, LineSkills, LineDid, LineProject, LineBA>>, <<"\n">>)}

InitParse ==
  /\ \E t \in TextInputs : parse = [pc |-> "ready", text |-> t, sections |-> EmptySections]
  /\ render = Idle /\ req = Idle /\ env = Idle /\ pub = Idle

\* One call of parseCvSections with the text drawn.
ParseCall ==
  /\ parse.pc = "ready"
  /\ parse' = [parse EXCEPT !.pc = "done", !.sections = ParseCvSections(parse.text)]
  /\ UNCHANGED <<render, req, env, pub>>

NextParse == ParseCall

SpecParse == InitParse /\ [][NextParse]_vars

(***************************************************************************)
(* Properties of parseCvSections.                                          *)
(***************************************************************************)

Parsed == parse.pc = "done"

\* The trimmed non-empty lines of the parsed text.
ParsedLines == Lines(parse.text)

SectionFields == {"experience", "education", "skills", "projects", "achievements", "contact"}

HeadersOf(f) ==
  CASE f = "experience" -> ExperienceHeaders
    [] f = "education" -> EducationHeaders
    [] f = "skills" -> SkillsHeaders
    [] f = "projects" -> ProjectsHeaders
    [] f = "achievements" -> AchievementsHeaders
    [] OTHER -> ContactHeaders

\* Line i holds one of the keywords hs, case-insensitively.
HoldsKeyword(ls, i, hs) == LET lo == ToLowerCase(ls[i]) IN \E k \in 1..Len(hs) : Includes(lo, hs[k])

\* Some line holds one of the keywords hs.
HasHeading(ls, hs) == \E i \in 1..Len(ls) : HoldsKeyword(ls, i, hs)

\* v is the range after the first heading line of hs: the lines after the first
\* line holding a keyword of hs, up to the next line holding a global heading
\* keyword (or the end), joined by newlines.
IsHeadingRange(ls, hs, v) ==
  \E i \in 1..Len(ls) :
    /\ HoldsKeyword(ls, i, hs)
    /\ \A j \in 1..(i - 1) : ~HoldsKeyword(ls, j, hs)
    /\ \E e \in (i + 1)..(Len(ls) + 1) :
         /\ e = Len(ls) + 1 \/ HoldsKeyword(ls, e, GlobalHeadings)
         /\ \A j \in (i + 1)..(e - 1) : ~HoldsKeyword(ls, j, GlobalHeadings)
         /\ v = Join(SubSeq(ls, i + 1, e - 1), <<"\n">>)

\* Lines 6 .. min(len, 60) - 1 (zero-based), joined by newlines.
FallbackBlock(ls) == Join(SubSeq(ls, 7, Min(Len(ls), 60)), <<"\n">>)

ExampleHolds ==
  parse.text = ExampleText =>
    parse.sections.experience = LineDid /\ parse.sections.education = LineBA

\* C5: for every non-empty input text, raw equals the text exactly.
C5_RawIsTheInput == (Parsed /\ Len(parse.text) > 0) => parse.sections.raw = parse.text

\* C5 witness: a parsed text with indentation, carriage returns and a trailing
\* newline, none of which the lines keep.
C5_Witness ==
  /\ Parsed
  /\ parse.text = Dressed(<<LineName, LineSummary, LineExperience, LineDid>>)
  /\ parse.sections.experience = LineDid

AllKeywords ==
  GlobalHeadings \o ExperienceHeaders \o EducationHeaders \o SkillsHeaders \o ProjectsHeaders
  \o AchievementsHeaders \o ContactHeaders

\* More than 6 lines, none holding a heading keyword.
NoHeadings(ls) ==
  /\ Len(ls) > 6
  /\ \A i \in 1..Len(ls) : ~HoldsKeyword(ls, i, AllKeywords)

FallbackResult(ls) ==
  /\ parse.sections.experience = FallbackBlock(ls)
  /\ parse.sections.summary = Join(SubSeq(ls, 2, 6), <<" ">>)

DefaultUploadedFilePath == <<"/", "m", "n", "t", "/", "d", "a", "t", "a", "/", "a", "a", "s", "s", "s", ".", "p", "d", "f">>

ErrorNoText == "Could not extract CV text from DeepSeek, uploaded DOCX, or uploaded file. Ensure DeepSeek share is public or upload a readable DOCX/PDF."

ErrorSplit == "(themeColors || \"\").split is not a function"

\* The viability check with a threshold of 20 instead of 80.
TooShortBelow20(cvText) == Len(cvText) = 0 \/ Len(Trim(cvText)) < 20

\* !cvText || cvText.trim().length < 80 (src/server.js:349)
TooShort(cvText) == Len(cvText) = 0 \/ Len(Trim(cvText)) < 80

\* The guard of steps 2 and 3 without the test of the length of cvText.
WantsFileAnyLength(r, e) ==
  /\ Truthy(WithDefault(r.body.uploadedFilePath, JsStr(DefaultUploadedFilePath)))
  /\ e.file.exists

\* (!cvText || cvText.length < 120) && uploadedFilePath && fs.existsSync(uploadedFilePath)
\* (src/server.js:304 and 332); the path is the body's, or the default path.
WantsFile(r, e) ==
  /\ Len(r.cvText) = 0 \/ Len(r.cvText) < 120
  /\ Truthy(WithDefault(r.body.uploadedFilePath, JsStr(DefaultUploadedFilePath)))
  /\ e.file.exists

Called(r, what) == [r EXCEPT !.calls = Append(@, what)]

\* A source has returned text (threw: the call threw and the handler caught
\* it) and the handler leaves cvText as newText.
Got(r, source, threw, text, newText) ==
  [r EXCEPT !.cvText = newText,
            !.steps = Append(@, [source |-> source, threw |-> threw, text |-> text,
                                 before |-> r.cvText, after |-> newText])]

Respond(r, resp) == [r EXCEPT !.responses = Append(@, resp), !.pc = "done"]

\* The handler with the catch block left out: an exception of the renderer
\* ends the handler without a response.
FinishNoCatch(r) ==
  IF TooShort(r.cvText)
  THEN Respond(r, [status |-> 400, ok |-> FALSE, error |-> ErrorNoText])
  ELSE LET sections == ParseCvSections(r.cvText)
           page == GenerateFullHtml(sections, WithDefault(r.body.themeType, JsStr(MODERN)),
                                    WithDefault(r.body.themeColors, JsStr(BLACK)),
                                    WithDefault(r.body.professional, JsBool(TRUE)))
           r2 == Called(Called(r, "parseCvSections"), "generateFullHtml")
       IN IF page.threw
          THEN [r2 EXCEPT !.exception = ErrorSplit, !.pc = "crashed"]
          ELSE Respond(r2, [status |-> 200, ok |-> TRUE, html |-> page.html])

\* src/server.js:349-362: the viability check, parse, render, response, and
\* the catch block.
Finish(r) ==
  IF TooShort(r.cvText)
  THEN Respond(r, [status |-> 400, ok |-> FALSE, error |-> ErrorNoText])
  ELSE LET sections == ParseCvSections(r.cvText)
           page == GenerateFullHtml(sections, WithDefault(r.body.themeType, JsStr(MODERN)),
                                    WithDefault(r.body.themeColors, JsStr(BLACK)),
                                    WithDefault(r.body.professional, JsBool(TRUE)))
           r2 == Called(Called(r, "parseCvSections"), "generateFullHtml")
       IN IF page.threw
          THEN Respond([r2 EXCEPT !.exception = ErrorSplit], [status |-> 500, ok |-> FALSE, error |-> ErrorSplit])
          ELSE Respond(r2, [status |-> 200, ok |-> TRUE, html |-> page.html])

\* src/server.js:339-345: the plain-text read.
ReadPlainText(r, e) ==
  LET r2 == Called(r, "readFileSync")
  IN IF ~e.file.utf8.ok THEN Got(r2, "readFileSync", TRUE, <<>>, r.cvText)
     ELSE LET raw == e.file.utf8.value
          IN Got(r2, "readFileSync", FALSE, raw,
                 IF Len(raw) > 0 /\ Len(raw) > Len(r.cvText) THEN CleanText(raw) ELSE r.cvText)

\* src/server.js:332-347: step 3, up to the await of extractTextFromPdf.
Stage3(r, e) ==
  IF WantsFile(r, e)
  THEN IF e.file.ext = ".pdf" /\ e.pdfParse
       THEN [Called(r, "extractTextFromPdf") EXCEPT !.pc = "awaitPdf"]
       ELSE Finish(ReadPlainText(r, e))
  ELSE Finish(r)

\* src/server.js:304-329: step 2, up to the await of extractTextFromDocx.
Stage2(r, e) ==
  IF WantsFile(r, e) /\ e.file.ext = ".docx"
  THEN [Called(r, "extractTextFromDocx") EXCEPT !.pc = "awaitMammoth"]
  ELSE Stage3(r, e)

\* src/server.js:309-315: after extractTextFromDocx has returned.
AfterMammoth(r, e) ==
  LET docxText == ExtractTextFromDocx(e.file)
      r2 == Got(r, "extractTextFromDocx", FALSE, docxText,
                IF (Len(r.cvText) = 0 \/ Len(docxText) > Len(r.cvText)) /\ Len(docxText) > 20
                THEN docxText ELSE r.cvText)
  IN IF Len(r2.cvText) = 0 \/ Len(r2.cvText) < 80
     THEN LET fallback == ExtractTextFromDocxZipFallback(e.file)
              r3 == Called(r2, "extractTextFromDocxZipFallback")
          IN Got(r3, "extractTextFromDocxZipFallback", FALSE, fallback,
                 IF Len(fallback) > Len(r2.cvText) THEN fallback ELSE r2.cvText)
     ELSE r2

\* The PDF step with a retry: an empty result makes the handler call
\* extractTextFromPdf a second time.
AfterPdfRetry(r, e) ==
  LET pdfText == ExtractTextFromPdf(e.file, e.pdfParse)
      r2 == IF Len(pdfText) = 0 THEN Called(r, "extractTextFromPdf") ELSE r
  IN Got(r2, "extractTextFromPdf", FALSE, pdfText,
         IF Len(pdfText) > Len(r.cvText) THEN pdfText ELSE r.cvText)

\* src/server.js:336-337: after extractTextFromPdf has returned.
AfterPdf(r, e) ==
  LET pdfText == ExtractTextFromPdf(e.file, e.pdfParse)
  IN Got(r, "extractTextFromPdf", FALSE, pdfText,
         IF Len(pdfText) > Len(r.cvText) THEN pdfText ELSE r.cvText)

\* The handler from the arrival of request r to its first await or its end,
\* in environment e: the body is destructured and, with a deepseekUrl, the
\* scrape is started.
Begin(r, e) ==
  IF Truthy(WithDefault(r.body.deepseekUrl, JsStr(<<>>)))
  THEN [Called(r, "fetchDeepseekText") EXCEPT !.pc = "awaitFetch"]
  ELSE Stage2(r, e)

\* The handler from the return of fetchDeepseekText (src/server.js:299).
Fetched(r, e) ==
  LET text == FetchDeepseekText(e.page)
  IN Stage2(Got(r, "fetchDeepseekText", FALSE, text, text), e)

\* The handler from the return of extractTextFromDocx.
MammothDone(r, e) == Stage3(AfterMammoth(r, e), e)

\* The handler from the return of extractTextFromPdf.
PdfDone(r, e) == Finish(AfterPdf(r, e))

\* The request arrives.
GenBegin ==
  /\ req.pc = "start"
  /\ req' = Begin(req, env)
  /\ UNCHANGED <<render, parse, env, pub>>

\* fetchDeepseekText has returned.
GenFetched ==
  /\ req.pc = "awaitFetch"
  /\ req' = Fetched(req, env)
  /\ UNCHANGED <<render, parse, env, pub>>

\* extractTextFromDocx has returned.
GenMammothDone ==
  /\ req.pc = "awaitMammoth"
  /\ req' = MammothDone(req, env)
  /\ UNCHANGED <<render, parse, env, pub>>

\* extractTextFromPdf has returned.
GenPdfDone ==
  /\ req.pc = "awaitPdf"
  /\ req' = PdfDone(req, env)
  /\ UNCHANGED <<render, parse, env, pub>>

NextGenerate == GenBegin \/ GenFetched \/ GenMammothDone \/ GenPdfDone

(***************************************************************************)
(* The environments and request bodies of the handler.                     *)
(***************************************************************************)

\* n characters of prose: words of four letters.
Prose(n) == [i \in 1..n |-> IF i % 5 = 0 /\ i < n THEN " " ELSE "a"]

\* n characters of a binary file read as UTF-8.
Binary(n) == [i \in 1..n |-> "#"]

Spaces(n) == [i \in 1..n |-> " "]

\* A CV of 113 characters and one of 133.
CvText == ExampleText \o <<"\n">> \o Prose(60)

CvLong == ExampleText \o <<"\n">> \o Prose(80)

NoNodes == [k \in 1..Len(Selectors) |-> <<>>]

Pages ==
  {[status |-> "throws", nodes |-> NoNodes, body |-> <<>>],
   [status |-> "notok", nodes |-> NoNodes, body |-> CvLong],
   [status |-> "ok", nodes |-> NoNodes, body |-> Prose(60)],
   [status |-> "ok", nodes |-> NoNodes, body |-> Prose(100)],
   [status |-> "ok", nodes |-> [NoNodes EXCEPT ![1] = <<Prose(210)>>, ![3] = <<Prose(20), Prose(30)>>], body |-> Prose(100)]}

NoPage == [status |-> "throws", nodes |-> NoNodes, body |-> <<>>]

File(exists, ext, mammoth, zip, pdf, utf8) ==
  [exists |-> exists, ext |-> ext, mammoth |-> mammoth, zip |-> zip, pdf |-> pdf, utf8 |-> utf8]

FileMissing == File(FALSE, ".pdf", Throws, Throws, Throws, Throws)

FilePdfGood == File(TRUE, ".pdf", Throws, Throws, Returns(CvText), Returns(Binary(200)))

\* The files an uploadedFilePath of the body can name.
UploadedFiles ==
  {FileMissing, FilePdfGood,
   File(TRUE, ".pdf", Throws, Throws, Throws, Returns(Binary(100))),
   File(TRUE, ".docx", Returns(CvLong), Returns(<<"<", "w", ":", "p", ">">> \o CvLong \o <<"<", "/", "w", ":", "p", ">">>), Throws, Returns(Binary(150))),
   File(TRUE, ".docx", Returns(Prose(30)), Returns(<<"<", "w", ":", "p", ">">> \o Prose(100) \o <<"<", "/", "w", ":", "p", ">">>), Throws, Returns(Binary(150))),
   File(TRUE, ".docx", Throws, Throws, Throws, Returns(Binary(90))),
   File(TRUE, ".docx", Returns(Prose(10)), Returns("none"), Throws, Returns(Binary(50))),
   File(TRUE, ".doc", Throws, Throws, Throws, Returns(Binary(100))),
   File(TRUE, ".txt", Throws, Throws, Throws, Returns(Prose(79))),
   File(TRUE, ".txt", Throws, Throws, Throws, Returns(Prose(80))),
   File(TRUE, ".txt", Throws, Throws, Throws, Returns(Spaces(30) \o Prose(75) \o <<"\n">>)),
   File(TRUE, ".txt", Throws, Throws, Throws, Returns(<<"<", "p", ">">> \o CvText \o <<"<", "/", "p", ">">>)),
   File(TRUE, ".txt", Throws, Throws, Throws, Throws)}

\* The files that can be at DEFAULT_UPLOADED_FILE_PATH, a .pdf path.
DefaultFiles == {FileMissing, FilePdfGood}

UploadPath == <<"/", "u", "p", "l", "o", "a", "d", "s", "/", "1">>

ShareUrl == <<"h", "t", "t", "p", "s", ":", "/", "/", "x", ".", "y">>

\* The (themeType, themeColors, professional) triples of the request bodies.
BodyConfigs ==
  {<<JsUndefined, JsUndefined, JsUndefined>>,
   <<JsStr(<<"p", "h", "o", "t", "o", "g", "r", "a", "p", "h", "e", "r">>), JsStr(<<"w", "h", "i", "t", "e", " ", "b", "l", "u", "e">>), JsBool(TRUE)>>,
   <<JsUndefined, JsNum(5), JsUndefined>>,
   <<JsStr(PayTagName), JsStr(<<"<", "/", "s", "t", "y", "l", "e", ">">> \o ScriptText), JsStr(ScriptText)>>}

Body(url, cfg, path) ==
  [deepseekUrl |-> url, themeType |-> cfg[1], themeColors |-> cfg[2], professional |-> cfg[3],
   uploadedFilePath |-> path]

NewRequest(body) ==
  [pc |-> "start", body |-> body, cvText |-> <<>>, calls |-> <<>>, steps |-> <<>>, responses |-> <<>>,
   exception |-> "none"]

InitGenerate ==
  /\ \E cfg \in BodyConfigs, pdfParse \in BOOLEAN :
       \E url \in {JsUndefined, JsStr(ShareUrl)} :
         \E page \in (IF url = JsUndefined THEN {NoPage} ELSE Pages) :
           \/ \E file \in UploadedFiles :
                /\ env = [pdfParse |-> pdfParse, page |-> page, file |-> file]
                /\ req = NewRequest(Body(url, cfg, JsStr(UploadPath)))
           \/ \E file \in DefaultFiles :
                /\ env = [pdfParse |-> pdfParse, page |-> page, file |-> file]
                /\ req = NewRequest(Body(url, cfg, JsUndefined))
  /\ render = Idle /\ parse = Idle /\ pub = Idle

Init == InitGenerate

Next == NextGenerate

Spec == Init /\ [][Next]_vars

(***************************************************************************)
(* Claims about POST /generate.                                            *)
(***************************************************************************)

Responded(status) == Len(req.responses) = 1 /\ req.responses[1].status = status

\* C1: when the handler has finished and the final cvText is empty or has
\* trimmed length below 80, the one response is the 400 failure and neither
\* parseCvSections nor generateFullHtml was called; an {ok: true, html}
\* response exists only for text of trimmed length at least 80.
C1_ShortTextIsRefused ==
  /\ req.pc = "done" /\ Len(Trim(req.cvText)) < 80 =>
       /\ req.responses = <<[status |-> 400, ok |-> FALSE, error |-> ErrorNoText]>>
       /\ \A i \in 1..Len(req.calls) : req.calls[i] \notin {"parseCvSections", "generateFullHtml"}
  /\ \A i \in 1..Len(req.responses) : req.responses[i].ok => Len(Trim(req.cvText)) >= 80
  /\ (\E i \in 1..Len(req.calls) : req.calls[i] \in {"parseCvSections", "generateFullHtml"}) =>
       Len(Trim(req.cvText)) >= 80

\* A request refused with text that is not empty: 79 characters read from the
\* uploaded file.
C1_Witness ==
  /\ req.pc = "done" /\ Responded(400)
  /\ Len(Trim(req.cvText)) = 79
  /\ \E i \in 1..Len(req.calls) : req.calls[i] = "readFileSync"

\* C2: a request has no response while it is being handled and exactly one
\* when the handler has finished; the response is 200 {ok: true, html}, or 400
\* {ok: false, error} and then the text is below the threshold, or 500
\* {ok: false, error} with the message of an exception raised in the handler
\* and then one was raised; a request without a response is at the start of
\* the handler or at one of its three awaits, from where the handler goes on
\* once the awaited call settles.
C2_ExactlyOneResponse ==
  /\ req.pc = "done" <=> Len(req.responses) = 1
  /\ req.pc # "done" => Len(req.responses) = 0 /\ req.pc \in {"start", "awaitFetch", "awaitMammoth", "awaitPdf"}
  /\ \A i \in 1..Len(req.responses) :
       LET resp == req.responses[i]
       IN \/ /\ resp.status = 200 /\ resp.ok /\ DOMAIN resp = {"status", "ok", "html"}
             /\ req.exception = "none"
          \/ /\ resp.status = 400 /\ ~resp.ok /\ DOMAIN resp = {"status", "ok", "error"}
             /\ Len(Trim(req.cvText)) < 80
             /\ req.exception = "none"
          \/ /\ resp.status = 500 /\ ~resp.ok /\ DOMAIN resp = {"status", "ok", "error"}
             /\ req.exception # "none"
             /\ resp.error = req.exception

\* A request whose renderer threw (themeColors is a number) and that was
\* answered with 500 and the exception's message.
C2_Witness ==
  /\ req.pc = "done" /\ Responded(500)
  /\ req.body.themeColors = JsNum(5)
  /\ req.exception = ErrorSplit
  /\ req.responses[1].error = ErrorSplit

(***************************************************************************)
(* sanitizeGeneratedHtml (src/commit_generated_to_github.js:78-91):        *)
(* sanitize-html with the script's options, then the removal of on*        *)
(* handlers by a regular expression.  The parser reads a tag as its name   *)
(* and its attributes (name, name=value, name="value", name='value'); an   *)
(* allowed tag is emitted with its allowed attributes, each value between  *)
(* double quotes with &, <, > and " encoded; text is emitted with &, < and *)
(* > encoded and quotes left as they are; the content of a style element   *)
(* is emitted as it is; a script element becomes a noscript element with   *)
(* empty text, which is not allowed and is dropped.  The pages of the      *)
(* model are well nested and use no URL scheme and no style attribute.     *)
(***************************************************************************)

SCRIPT == <<"s", "c", "r", "i", "p", "t">>

STYLE == <<"s", "t", "y", "l", "e">>

IMG == <<"i", "m", "g">>

Digits09 == {"0", "1", "2", "3", "4", "5", "6", "7", "8", "9"}

\* \w
WordChars == Letters \cup Digits09 \cup {"_"}

\* sanitizeHtml.defaults.allowedTags.concat(['img','style']), restricted to
\* the tag names the model's pages use
PublishAllowedTags == DefaultAllowedTags \cup {<<"a">>, IMG, STYLE}

\* sanitize-html's selfClosing default, restricted likewise
VoidTags == {IMG, <<"b", "r">>, <<"h", "r">>}

\* allowedAttributes of the script (src/commit_generated_to_github.js:81-85)
PublishAllowedAttributes(nm) ==
  {<<"c", "l", "a", "s", "s">>, <<"i", "d">>, STYLE}
  \cup (IF nm = <<"a">> THEN {<<"h", "r", "e", "f">>, <<"n", "a", "m", "e">>, <<"t", "a", "r", "g", "e", "t">>, <<"r", "e", "l">>} ELSE {})
  \cup (IF nm = IMG THEN {<<"s", "r", "c">>, <<"a", "l", "t">>, <<"w", "i", "d", "t", "h">>, <<"h", "e", "i", "g", "h", "t">>} ELSE {})

RECURSIVE ParseAttrs(_, _, _)
\* The attributes of a tag from position k, just after its name, and the
\* position of the ">" that ends the tag: 0 when the input ends inside it.
ParseAttrs(s, k, attrs) ==
  LET a == NextNotIn(s, k, WS \cup {"/"})
  IN IF a > Len(s) THEN [end |-> 0, attrs |-> attrs]
     ELSE IF s[a] = ">" THEN [end |-> a, attrs |-> attrs]
     ELSE LET ne == NextIn(s, a + 1, WS \cup {"=", ">", "/"})
              name == ToLowerCase(SubSeq(s, a, ne - 1))
              e == NextNotIn(s, ne, WS)
          IN IF e > Len(s) THEN [end |-> 0, attrs |-> attrs]
             ELSE IF s[e] # "=" THEN ParseAttrs(s, e, Append(attrs, [name |-> name, value |-> <<>>]))
             ELSE LET v == NextNotIn(s, e + 1, WS)
                  IN IF v > Len(s) THEN [end |-> 0, attrs |-> attrs]
                     ELSE IF s[v] \in {"\"", "'"}
                     THEN LET q == NextIn(s, v + 1, {s[v]})
                          IN IF q > Len(s) THEN [end |-> 0, attrs |-> attrs]
                             ELSE ParseAttrs(s, q + 1, Append(attrs, [name |-> name, value |-> SubSeq(s, v + 1, q - 1)]))
                     ELSE LET u == NextIn(s, v, WS \cup {">"})
                          IN ParseAttrs(s, u, Append(attrs, [name |-> name, value |-> SubSeq(s, v, u - 1)]))

\* The tag opened by the "<" at position i: its lower-cased name, whether it
\* is a closing tag, its attributes and the position of its ">".
ParseTag(s, i) ==
  LET closing == s[i + 1] = "/"
      b == IF closing THEN i + 2 ELSE i + 1
      ne == NextIn(s, b, WS \cup {"/", ">"})
      pa == ParseAttrs(s, ne, <<>>)
  IN [name |-> ToLowerCase(SubSeq(s, b, ne - 1)), closing |-> closing, attrs |-> pa.attrs, end |-> pa.end]

\* Position of the "<" of the first closing tag </nm at or after i, or 0.
CloseTagStart(s, i, nm) ==
  LET opens == {k \in i..Len(s) : MatchesAt(ToLowerCase(s), k - 1, <<"<", "/">> \o nm)}
  IN IF opens = {} THEN 0 ELSE CHOOSE k \in opens : \A j \in opens : k <= j

RECURSIVE EscapeAttrFrom(_, _)
EscapeAttrFrom(v, i) ==
  LET n == NextIn(v, i, {"&", "<", ">", "\""})
  IN IF n > Len(v) THEN SubSeq(v, i, Len(v))
     ELSE SubSeq(v, i, n - 1)
          \o (IF v[n] = "<" THEN Lt
              ELSE IF v[n] = ">" THEN Gt
              ELSE IF v[n] = "\"" THEN Quot
              ELSE IF EntityAt(v, n).out = <<"\"">> THEN Quot ELSE EntityAt(v, n).out)
          \o EscapeAttrFrom(v, IF v[n] = "&" THEN n + EntityAt(v, n).len ELSE n + 1)

\* escapeHtml(value, true): the value of an attribute as it is emitted
EscapeAttr(v) == EscapeAttrFrom(v, 1)

RECURSIVE EmitAttrs(_, _, _)
\* The allowed attributes of a tag as they are emitted.
EmitAttrs(nm, attrs, k) ==
  IF k > Len(attrs) THEN <<>>
  ELSE (IF attrs[k].name \in PublishAllowedAttributes(nm)
        THEN <<" ">> \o attrs[k].name
             \o (IF Len(attrs[k].value) > 0 THEN <<"=", "\"">> \o EscapeAttr(attrs[k].value) \o <<"\"">> ELSE <<>>)
        ELSE <<>>)
       \o EmitAttrs(nm, attrs, k + 1)

RECURSIVE SanGen(_, _, _)
SanGen(s, i, out) ==
  IF i > Len(s) THEN out
  ELSE IF s[i] = "<"
  THEN IF ~IsTagStart(s, i) THEN SanGen(s, i + 1, out \o Lt)
       ELSE IF s[i + 1] = "!"
       THEN LET e == TagEnd(s, i) IN IF e = 0 THEN out ELSE SanGen(s, e + 1, out)
       ELSE LET tag == ParseTag(s, i)
                nm == tag.name
            IN IF tag.end = 0 THEN out
               ELSE IF tag.closing
               THEN SanGen(s, tag.end + 1,
                           IF nm \in PublishAllowedTags \ VoidTags THEN out \o <<"<", "/">> \o nm \o <<">">> ELSE out)
               ELSE IF nm = SCRIPT \/ (nm \in NonTextTags /\ nm \notin PublishAllowedTags)
               THEN LET c == CloseTagEnd(s, tag.end + 1, nm)
                    IN IF c = 0 THEN out ELSE SanGen(s, c + 1, out)
               ELSE IF nm = STYLE
               THEN LET c == CloseTagStart(s, tag.end + 1, nm)
                        open == out \o <<"<">> \o nm \o EmitAttrs(nm, tag.attrs, 1) \o <<">">>
                    IN IF c = 0 THEN open \o SubSeq(s, tag.end + 1, Len(s)) \o <<"<", "/">> \o nm \o <<">">>
                       ELSE SanGen(s, c, open \o SubSeq(s, tag.end + 1, c - 1))
               ELSE IF nm \in PublishAllowedTags
               THEN SanGen(s, tag.end + 1,
                           out \o <<"<">> \o nm \o EmitAttrs(nm, tag.attrs, 1)
                               \o (IF nm \in VoidTags THEN <<" ", "/", ">">> ELSE <<">">>))
               ELSE SanGen(s, tag.end + 1, out)
  ELSE IF s[i] = ">" THEN SanGen(s, i + 1, out \o Gt)
  ELSE IF s[i] = "&"
  THEN LET en == EntityAt(s, i) IN SanGen(s, i + en.len, out \o en.out)
  ELSE LET n == NextIn(s, i, {"<", ">", "&"})
       IN SanGen(s, n, out \o SubSeq(s, i, n - 1))

\* The length of the match of /\son\w+\s*=\s*(["']).*?\1/i at position k of
\* s, or 0 when it does not match there.
HandlerMatch(s, k) ==
  IF ~(k + 3 <= Len(s) /\ s[k] \in WS /\ ToLowerChar(s[k + 1]) = "o" /\ ToLowerChar(s[k + 2]) = "n"
       /\ s[k + 3] \in WordChars)
  THEN 0
  ELSE LET w == NextNotIn(s, k + 3, WordChars)
           e == NextNotIn(s, w, WS)
       IN IF e > Len(s) \/ s[e] # "=" THEN 0
          ELSE LET v == NextNotIn(s, e + 1, WS)
               IN IF v > Len(s) \/ s[v] \notin {"\"", "'"} THEN 0
                  ELSE LET q == NextIn(s, v + 1, {s[v], "\n", "\r"})
                       IN IF q > Len(s) \/ s[q] # s[v] THEN 0 ELSE q - k + 1

RECURSIVE RemoveHandlers(_, _)
\* cleaned.replace(/\son\w+\s*=\s*(["']).*?\1/gi, '') from position i
RemoveHandlers(s, i) ==
  LET ks == {k \in i..Len(s) : HandlerMatch(s, k) > 0}
  IN IF ks = {} THEN SubSeq(s, i, Len(s))
     ELSE LET k == CHOOSE k \in ks : \A j \in ks : k <= j
          IN SubSeq(s, i, k - 1) \o RemoveHandlers(s, k + HandlerMatch(s, k))

\* sanitizeGeneratedHtml(html)
SanitizeGeneratedHtml(html) == RemoveHandlers(SanGen(html, 1, <<>>), 1)

(***************************************************************************)
(* The publish script (src/commit_generated_to_github.js:1-131).  A run is *)
(*   [pc, calls, rawHtml, safeHtml, base64, reply, existingSha, commit,    *)
(*    exit, file, fresh]                                                   *)
(* calls lists the functions the script has called; rawHtml, safeHtml and  *)
(* base64 are main's variables of these names; reply is the answer of      *)
(* getContent on its way to the script; existingSha is what getFileSha     *)
(* returned; commit is the createOrUpdateFileContents call, with the       *)
(* content and the SHA it passed and the file at the path when it was      *)
(* made; file is the SHA of the file at the configured path of the         *)
(* repository, NoFile when there is none; fresh is the next SHA the        *)
(* repository gives out.                                                   *)
(***************************************************************************)

\* The printable ASCII characters, from code 32 to code 126; the pages of
\* the model have no backslash and no backtick, which stand here under their
\* names.
Printable == <<" ", "!", "\"", "#", "$", "%", "&", "'", "(", ")", "*", "+", ",", "-", ".", "/", "0", "1", "2", "3", "4", "5", "6", "7", "8", "9", ":", ";", "<", "=", ">", "?", "@", "A", "B", "C", "D", "E", "F", "G", "H", "I", "J", "K", "L", "M", "N", "O", "P", "Q", "R", "S", "T", "U", "V", "W", "X", "Y", "Z", "[", "backslash", "]", "^", "_", "backtick", "a", "b", "c", "d", "e", "f", "g", "h", "i", "j", "k", "l", "m", "n", "o", "p", "q", "r", "s", "t", "u", "v", "w", "x", "y", "z", "{", "|", "}", "~">>

Base64Alphabet == <<"A", "B", "C", "D", "E", "F", "G", "H", "I", "J", "K", "L", "M", "N", "O", "P", "Q", "R", "S", "T", "U", "V", "W", "X", "Y", "Z", "a", "b", "c", "d", "e", "f", "g", "h", "i", "j", "k", "l", "m", "n", "o", "p", "q", "r", "s", "t", "u", "v", "w", "x", "y", "z", "0", "1", "2", "3", "4", "5", "6", "7", "8", "9", "+", "/">>

\* The UTF-8 byte of a character of the model's pages.
CharCode(c) ==
  IF c = "\n" THEN 10
  ELSE IF c = "\r" THEN 13
  ELSE IF c = "\t" THEN 9
  ELSE 31 + CHOOSE k \in 1..Len(Printable) : Printable[k] = c

RECURSIVE Base64From(_, _)
Base64From(s, i) ==
  IF i > Len(s) THEN <<>>
  ELSE LET a == CharCode(s[i])
           b == IF i + 1 <= Len(s) THEN CharCode(s[i + 1]) ELSE 0
           c == IF i + 2 <= Len(s) THEN CharCode(s[i + 2]) ELSE 0
           n == a * 65536 + b * 256 + c
       IN <<Base64Alphabet[(n \div 262144) + 1],
            Base64Alphabet[((n \div 4096) % 64) + 1],
            IF i + 1 <= Len(s) THEN Base64Alphabet[((n \div 64) % 64) + 1] ELSE "=",
            IF i + 2 <= Len(s) THEN Base64Alphabet[(n % 64) + 1] ELSE "=">>
          \o Base64From(s, i + 3)

\* Buffer.from(s, 'utf8').toString('base64')
Base64(s) == Base64From(s, 1)


\* sha = null (src/commit_generated_to_github.js:102)
NoSha == 0

NoFile == 0

\* The number of SHAs the repository gives out in a run.
MaxSha == 3

NoCommit == [made |-> FALSE, content |-> <<>>, hasSha |-> FALSE, sha |-> NoSha, fileAtCall |-> NoFile]

\* A failure that is logged and not acted on: the script goes on to the
\* repository as if the step had succeeded.
PubFailIgnored(p) ==
  [p EXCEPT !.calls = @ \o <<"sanitizeGeneratedHtml", "getFileSha">>, !.pc = "lookup"]

\* The catch block of main: process.exit(1)
PubFail(p) == [p EXCEPT !.pc = "exited", !.exit = 1]

PubCalled(p, what) == [p EXCEPT !.calls = Append(@, what)]

\* getFileSha (src/commit_generated_to_github.js:93-100): the SHA of the
\* answer, null when the answer has none or the request failed.
GetFileSha(reply) ==
  IF reply.kind = "content" /\ reply.sha # NoSha THEN reply.sha ELSE NoSha

\* commitToGithub (src/commit_generated_to_github.js:102-106): the params of
\* createOrUpdateFileContents; sha is set only when it is truthy.
CommitParams(base64Content, sha) ==
  IF sha # NoSha THEN [content |-> base64Content, hasSha |-> TRUE, sha |-> sha]
  ELSE [content |-> base64Content, hasSha |-> FALSE, sha |-> NoSha]

\* The checks at load (src/commit_generated_to_github.js:30-37), then main
\* calls uploadFileToBackend.
PubStart ==
  /\ pub.pc = "start"
  /\ pub' = IF ~pub.token \/ ~pub.localFile
            THEN PubFail(pub)
            ELSE [PubCalled(pub, "uploadFileToBackend") EXCEPT !.pc = "uploading"]
  /\ UNCHANGED <<render, parse, req, env>>

\* The backend has answered the upload; main calls generateHtmlOnBackend.
PubUploaded ==
  /\ pub.pc = "uploading"
  /\ \E outcome \in {"ok", "notok", "error"} :
       pub' = IF outcome = "ok"
              THEN [PubCalled(pub, "generateHtmlOnBackend") EXCEPT !.pc = "generating"]
              ELSE PubFail(pub)
  /\ UNCHANGED <<render, parse, req, env>>

\* The pages the backend answers the generation with.
GeneratedPages ==
  {<<"<", "p", ">", "H", "i", "<", "/", "p", ">">>,
   <<"<", "s", "c", "r", "i", "p", "t", ">", "x", "<", "/", "s", "c", "r", "i", "p", "t", ">", "<", "p", ">", "a", "<", "/", "p", ">">>,
   <<"<", "p", " ", "o", "n", "c", "l", "i", "c", "k", "=", "\"", "x", "\"", ">", "a", "<", "/", "p", ">">>,
   <<"<", "s", "t", "y", "l", "e", ">", "p", "{", "}", "<", "/", "s", "t", "y", "l", "e", ">", "<", "b", ">", "a", "<", "/", "b", ">">>,
   <<"<", "i", "m", "g", " ", "s", "r", "c", "=", "\"", "x", "\"", " ", "o", "n", "e", "r", "r", "o", "r", "=", "\"", "y", "\"", ">">>,
   <<"<", "p", ">", " ", "o", "n", "x", "=", "\"", "1", "\"", " ", "a", "<", "/", "p", ">">>,
   <<"<", "d", "i", "v", " ", "c", "l", "a", "s", "s", "=", "\"", "c", "\"", ">", "a", " ", "&", " ", "b", "<", "/", "d", "i", "v", ">">>,
   <<"<", "p", " ", "i", "d", "=", "\"", "a", " ", "o", "n", "x", "=", "'", "\"", ">", "i", "t", "'", " ", "\"", " ", "o", "n", "m", "o", "u", "s", "e", "o", "v", "e", "r", "=", "a", "l", "e", "r", "t", "(", "1", ")", " ", ">", "h", "i", "<", "/", "p", ">">>}

\* The backend has answered the generation with a page, with a status that
\* is not OK or with a body without html; main sanitizes the page, encodes
\* it and calls getFileSha.
PubGenerated ==
  /\ pub.pc = "generating"
  /\ \E outcome \in {"ok", "notok", "invalid"}, html \in GeneratedPages :
       pub' = IF outcome = "ok"
              THEN [PubCalled(PubCalled(pub, "sanitizeGeneratedHtml"), "getFileSha") EXCEPT
                      !.pc = "lookup",
                      !.rawHtml = html,
                      !.safeHtml = SanitizeGeneratedHtml(html),
                      !.base64 = Base64(SanitizeGeneratedHtml(html))]
              ELSE PubFail(pub)
  /\ UNCHANGED <<render, parse, req, env>>

\* The repository answers getContent: the file's SHA, 404 when there is no
\* file, or the request fails (network, 403, 5xx).
PubLookupAnswered ==
  /\ pub.pc = "lookup"
  /\ \E failed \in BOOLEAN :
       pub' = [pub EXCEPT !.pc = "answered",
                          !.reply = IF failed THEN [kind |-> "error", sha |-> NoSha]
                                    ELSE IF pub.file = NoFile THEN [kind |-> "notfound", sha |-> NoSha]
                                    ELSE [kind |-> "content", sha |-> pub.file]]
  /\ UNCHANGED <<render, parse, req, env>>

\* getFileSha returns and main calls commitToGithub.
PubCommitCall ==
  /\ pub.pc = "answered"
  /\ LET sha == GetFileSha(pub.reply)
         params == CommitParams(pub.base64, sha)
     IN pub' = [PubCalled(pub, "commitToGithub") EXCEPT
                  !.pc = "committing",
                  !.existingSha = sha,
                  !.commit = [made |-> TRUE, content |-> params.content,
                              hasSha |-> params.hasSha, sha |-> params.sha,
                              fileAtCall |-> pub.file]]
  /\ UNCHANGED <<render, parse, req, env>>

\* createOrUpdateFileContents is answered.  The content API accepts a create
\* when there is no file and an update that names the file's SHA; otherwise,
\* or when the request fails, the call rejects and main exits with 1.
PubCommitDone ==
  /\ pub.pc = "committing"
  /\ \E failed \in BOOLEAN :
       LET accepted == /\ ~failed
                       /\ pub.fresh <= MaxSha
                       /\ IF pub.commit.hasSha THEN pub.commit.sha = pub.file ELSE pub.file = NoFile
       IN pub' = IF accepted
                 THEN [pub EXCEPT !.pc = "exited", !.exit = 0, !.file = pub.fresh, !.fresh = @ + 1]
                 ELSE PubFail(pub)
  /\ UNCHANGED <<render, parse, req, env>>

\* Another writer commits the file at the path.
RepoChange ==
  /\ pub.pc # "exited"
  /\ pub.fresh <= MaxSha
  /\ pub' = [pub EXCEPT !.file = pub.fresh, !.fresh = @ + 1]
  /\ UNCHANGED <<render, parse, req, env>>

\* Another writer deletes the file at the path.
RepoDelete ==
  /\ pub.pc # "exited"
  /\ pub.file # NoFile
  /\ pub' = [pub EXCEPT !.file = NoFile]
  /\ UNCHANGED <<render, parse, req, env>>

InitPublish ==
  /\ \E token \in BOOLEAN, localFile \in BOOLEAN, file \in {NoFile, 1} :
       pub = [pc |-> "start", token |-> token, localFile |-> localFile, calls |-> <<>>,
              rawHtml |-> <<>>, safeHtml |-> <<>>, base64 |-> <<>>,
              reply |-> [kind |-> "none", sha |-> NoSha], existingSha |-> NoSha,
              commit |-> NoCommit, exit |-> -1, file |-> file, fresh |-> 2]
  /\ render = Idle /\ parse = Idle /\ req = Idle /\ env = Idle

NextPublish ==
  \/ PubStart \/ PubUploaded \/ PubGenerated \/ PubLookupAnswered
  \/ PubCommitCall \/ PubCommitDone \/ RepoChange \/ RepoDelete

SpecPublish == InitPublish /\ [][NextPublish]_vars

\* C10: when createOrUpdateFileContents is called and a file exists at the
\* path at that moment, the call carries that file's current SHA; the call
\* carries no SHA only when no file exists at the path.
C10_CommitCarriesCurrentSha ==
  pub.commit.made =>
    /\ pub.commit.fileAtCall # NoFile => pub.commit.hasSha /\ pub.commit.sha = pub.commit.fileAtCall
    /\ ~pub.commit.hasSha => pub.commit.fileAtCall = NoFile

RECURSIVE TagsOf(_, _, _)
\* The tags of a page as an HTML parser reads them: the content of a style
\* or script element is text, not tags.
TagsOf(s, i, acc) ==
  LET n == NextIn(s, i, {"<"})
  IN IF n > Len(s) THEN acc
     ELSE IF ~IsTagStart(s, n) THEN TagsOf(s, n + 1, acc)
     ELSE IF s[n + 1] = "!"
     THEN IF TagEnd(s, n) = 0 THEN acc ELSE TagsOf(s, TagEnd(s, n) + 1, acc)
     ELSE LET tag == ParseTag(s, n)
          IN IF tag.end = 0 THEN acc
             ELSE IF ~tag.closing /\ tag.name \in {SCRIPT, STYLE}
             THEN LET c == CloseTagEnd(s, tag.end + 1, tag.name)
                  IN IF c = 0 THEN Append(acc, tag) ELSE TagsOf(s, c + 1, Append(acc, tag))
             ELSE TagsOf(s, tag.end + 1, Append(acc, tag))

HasScriptElement(page) ==
  \E k \in 1..Len(TagsOf(page, 1, <<>>)) : TagsOf(page, 1, <<>>)[k].name = SCRIPT

\* Some tag of the page has an attribute whose name starts with "on".
HasHandlerAttribute(page) ==
  LET tags == TagsOf(page, 1, <<>>)
  IN \E k \in 1..Len(tags) : \E a \in 1..Len(tags[k].attrs) :
       StartsWith(tags[k].attrs[a].name, <<"o", "n">>) /\ Len(tags[k].attrs[a].name) > 2

\* C11: the content of the commit call is the base64 encoding of
\* sanitizeGeneratedHtml of the generated page, and is not the encoding of
\* the raw page when sanitizing changed it; the sanitized page has no script
\* tag and no tag with an on* attribute.
C11_CommitIsSanitizedPage ==
  pub.commit.made =>
    /\ pub.commit.content = Base64(SanitizeGeneratedHtml(pub.rawHtml))
    /\ SanitizeGeneratedHtml(pub.rawHtml) # pub.rawHtml => pub.commit.content # Base64(pub.rawHtml)
    /\ ~HasScriptElement(SanitizeGeneratedHtml(pub.rawHtml))
    /\ ~HasHandlerAttribute(SanitizeGeneratedHtml(pub.rawHtml))

(***************************************************************************)
(* Claims about the sources of POST /generate.                             *)
(***************************************************************************)

Extractors == {"fetchDeepseekText", "extractTextFromDocx", "extractTextFromDocxZipFallback", "extractTextFromPdf"}

HasCalled(what) == \E i \in 1..Len(req.calls) : req.calls[i] = what

\* The source cannot give text in this environment: the fetch throws or is
\* not OK, the library throws or cannot read the file, the archive has no
\* word/document.xml, the optional library is absent.
SourceFailed(source) ==
  IF source = "fetchDeepseekText" THEN env.page.status # "ok"
  ELSE IF source = "extractTextFromDocx" THEN ~env.file.mammoth.ok
  ELSE IF source = "extractTextFromDocxZipFallback" THEN ~env.file.zip.ok
  ELSE IF source = "extractTextFromPdf" THEN ~env.file.pdf.ok \/ ~env.pdfParse
  ELSE ~env.file.utf8.ok

\* C12: every extractor returns a string and never throws; it returns the
\* empty string when its source fails, and cvText is then left as it was; a
\* 500 comes only from an exception of the renderer; after a failed source
\* the handler goes on to the next one: after a failed fetch to the DOCX parse
\* of an existing .docx file, after a failed DOCX parse with less than 80
\* characters so far to the zip fallback, after a failed zip fallback to the
\* plain-text read.
C12_FailedSourceGivesEmptyText ==
  /\ \A k \in 1..Len(req.steps) :
       LET st == req.steps[k]
       IN st.source \in Extractors =>
            /\ ~st.threw
            /\ st.text \in Seq(STRING)
            /\ SourceFailed(st.source) => st.text = <<>> /\ st.after = st.before
            /\ SourceFailed(st.source) /\ req.pc = "done" => Len(req.responses) = 1 /\ req.responses[1].status \in {200, 400, 500}
            /\ (st.source = "fetchDeepseekText" /\ SourceFailed(st.source) /\ env.file.exists /\ env.file.ext = ".docx")
                 => HasCalled("extractTextFromDocx")
            /\ (st.source = "extractTextFromDocx" /\ SourceFailed(st.source) /\ Len(st.before) < 80)
                 => HasCalled("extractTextFromDocxZipFallback")
            /\ (st.source = "extractTextFromDocxZipFallback" /\ SourceFailed(st.source))
                 => HasCalled("readFileSync")
  /\ Responded(500) => req.exception = ErrorSplit /\ HasCalled("generateFullHtml")

\* A request whose fetch, DOCX parse and zip fallback all failed and that was
\* answered with a page made from the plain-text read.
C12_Witness ==
  /\ req.pc = "done" /\ Responded(200)
  /\ \A source \in {"fetchDeepseekText", "extractTextFromDocx", "extractTextFromDocxZipFallback"} :
       \E k \in 1..Len(req.steps) : req.steps[k].source = source /\ SourceFailed(source) /\ req.steps[k].text = <<>>

\* C13: whenever a source after the fetch (DOCX parse, zip fallback, PDF
\* parse, plain-text read) replaces cvText, the new text is strictly longer
\* than the one it replaces, so the length of cvText never decreases from one
\* step to the next.
C13_ReplacementIsLonger ==
  \A k \in 1..Len(req.steps) :
    LET st == req.steps[k]
    IN st.source # "fetchDeepseekText" =>
         /\ st.after # st.before => Len(st.after) > Len(st.before)
         /\ Len(st.after) >= Len(st.before)

\* C14: the uploaded file is read as UTF-8 plain text only when it is
\* neither a .docx nor a .pdf file.
C14_NoPlainReadOfDocxOrPdf ==
  HasCalled("readFileSync") => env.file.ext \notin {".docx", ".pdf"}

\* C15: once the DOCX parse of an existing .docx file has returned, the zip
\* fallback is attempted if and only if the parse gave fewer than 80
\* characters, whatever the scrape had given.
C15_ZipFallbackIffShortParse ==
  \A k \in 1..Len(req.steps) :
    req.steps[k].source = "extractTextFromDocx" =>
      (HasCalled("extractTextFromDocxZipFallback") <=> Len(req.steps[k].text) < 80)

\* The text is what readFileSync gives for content that is not text.
IsBinary(text) == Len(text) > 0 /\ text = Binary(Len(text))

\* C16: a plain-text read of binary content, or one that throws, leaves
\* cvText as it was; a missing file is not read; and a request whose file is
\* missing or binary and whose other sources gave no text of 80 characters
\* ends with the 400 failure.
C16_BinaryReadGivesNothing ==
  /\ \A k \in 1..Len(req.steps) :
       LET st == req.steps[k]
       IN st.source = "readFileSync" /\ (st.threw \/ IsBinary(st.text)) => st.after = st.before
  /\ ~env.file.exists => ~HasCalled("readFileSync")
  /\ ( /\ req.pc = "done"
       /\ ~env.file.exists \/ (env.file.utf8.ok /\ IsBinary(env.file.utf8.value))
       /\ \A k \in 1..Len(req.steps) :
            req.steps[k].source # "readFileSync" => Len(Trim(req.steps[k].text)) < 80 )
     => Responded(400)

\* The sources of text, in the order of the handler's steps.
SourceOrder ==
  <<"fetchDeepseekText", "extractTextFromDocx", "extractTextFromDocxZipFallback",
    "extractTextFromPdf", "readFileSync">>

SourceRank(what) == CHOOSE i \in 1..Len(SourceOrder) : SourceOrder[i] = what

IsSource(what) == \E i \in 1..Len(SourceOrder) : SourceOrder[i] = what

\* C17: within one request the calls of the sources follow the fixed order
\* fetch, mammoth parse, zip fallback, PDF parse, plain-text read, and no
\* source is called twice, whether or not it failed.
C17_EachSourceAtMostOnceInOrder ==
  \A i \in 1..Len(req.calls), j \in 1..Len(req.calls) :
    (i < j /\ IsSource(req.calls[i]) /\ IsSource(req.calls[j]))
      => SourceRank(req.calls[i]) < SourceRank(req.calls[j])

\* A finished request that called four sources, the first three of which
\* failed.
C17_Witness ==
  /\ req.pc = "done"
  /\ Len(req.calls) >= 4
  /\ \A i \in 1..4 : req.calls[i] = SourceOrder[IF i = 4 THEN 5 ELSE i]
  /\ SourceFailed("fetchDeepseekText")
  /\ SourceFailed("extractTextFromDocx")
  /\ SourceFailed("extractTextFromDocxZipFallback")

(***************************************************************************)
(* Two POST /generate requests in one process.  Under this specification   *)
(* req is the pair of the requests, each with the handler's local          *)
(* variables, and env holds the module-level pdfParse, whether the         *)
(* pdf-parse library is installed (what require gave at process start,     *)
(* src/server.js:33-39), the page and the file of each request, and the    *)
(* number of files POST /upload-cv stored.                                 *)
(***************************************************************************)

MaxUploads == 2

\* What request i reads: the module-level pdfParse, and its page and file.
EnvOf(e, i) == [pdfParse |-> e.pdfParse, page |-> e.page[i], file |-> e.file[i]]

\* The handler of request r from its position to its next await or its end.
HandlerStep(r, e) ==
  CASE r.pc = "start" -> Begin(r, e)
    [] r.pc = "awaitFetch" -> Fetched(r, e)
    [] r.pc = "awaitMammoth" -> MammothDone(r, e)
    [] r.pc = "awaitPdf" -> PdfDone(r, e)
    [] OTHER -> r

RECURSIVE Alone(_, _)
\* Request r run to its end with no other request in the process.
Alone(r, e) == IF r.pc = "done" THEN r ELSE Alone(HandlerStep(r, e), e)

\* cvText as one variable of the module: a request resumes with the text the
\* other request left in it.
LocalsWithSharedCvText(rs, i) ==
  LET other == rs[3 - i]
  IN [rs[i] EXCEPT !.cvText = IF other.pc = "start" THEN @ ELSE other.cvText]

\* What request i resumes with: everything the handler writes is declared
\* inside it (let cvText at src/server.js:292), one copy per request.
Locals(rs, i) == rs[i]

ConcBegin(i) ==
  /\ req[i].pc = "start"
  /\ req' = [req EXCEPT ![i] = Begin(Locals(req, i), EnvOf(env, i))]
  /\ UNCHANGED <<render, parse, env, pub>>

ConcFetched(i) ==
  /\ req[i].pc = "awaitFetch"
  /\ req' = [req EXCEPT ![i] = Fetched(Locals(req, i), EnvOf(env, i))]
  /\ UNCHANGED <<render, parse, env, pub>>

ConcMammothDone(i) ==
  /\ req[i].pc = "awaitMammoth"
  /\ req' = [req EXCEPT ![i] = MammothDone(Locals(req, i), EnvOf(env, i))]
  /\ UNCHANGED <<render, parse, env, pub>>

ConcPdfDone(i) ==
  /\ req[i].pc = "awaitPdf"
  /\ req' = [req EXCEPT ![i] = PdfDone(Locals(req, i), EnvOf(env, i))]
  /\ UNCHANGED <<render, parse, env, pub>>

\* src/server.js:154-169: POST /upload-cv answers with the path of the file
\* multer stored; it writes the new file and nothing else.
UploadCv ==
  /\ env.uploads < MaxUploads
  /\ env' = [env EXCEPT !.uploads = @ + 1]
  /\ UNCHANGED <<render, parse, req, pub>>

\* The requests of the two-request runs: body, page and file.
ConcurrentRequests ==
  {[body |-> Body(JsStr(ShareUrl), <<JsUndefined, JsUndefined, JsUndefined>>, JsStr(UploadPath)),
    page |-> [status |-> "ok", nodes |-> NoNodes, body |-> Prose(100)],
    file |-> File(TRUE, ".docx", Returns(Prose(30)), Returns(<<"<", "w", ":", "p", ">">> \o Prose(100) \o <<"<", "/", "w", ":", "p", ">">>), Throws, Returns(Binary(150)))],
   [body |-> Body(JsStr(ShareUrl), <<JsUndefined, JsNum(5), JsUndefined>>, JsUndefined),
    page |-> [status |-> "ok", nodes |-> [NoNodes EXCEPT ![1] = <<Prose(210)>>], body |-> Prose(100)],
    file |-> FileMissing],
   [body |-> Body(JsUndefined, <<JsUndefined, JsUndefined, JsUndefined>>, JsUndefined),
    page |-> NoPage,
    file |-> FilePdfGood],
   [body |-> Body(JsUndefined, <<JsUndefined, JsUndefined, JsUndefined>>, JsStr(UploadPath)),
    page |-> NoPage,
    file |-> File(TRUE, ".txt", Throws, Throws, Throws, Returns(Prose(79)))],
   [body |-> Body(JsStr(ShareUrl), <<JsUndefined, JsUndefined, JsUndefined>>, JsStr(UploadPath)),
    page |-> NoPage,
    file |-> File(TRUE, ".docx", Returns(CvLong), Throws, Throws, Returns(Binary(150)))],
   [body |-> Body(JsStr(ShareUrl), <<JsUndefined, JsUndefined, JsUndefined>>, JsStr(UploadPath)),
    page |-> [status |-> "ok", nodes |-> NoNodes, body |-> Prose(60)],
    file |-> File(TRUE, ".pdf", Throws, Throws, Returns(CvText), Returns(Binary(100)))]}

InitConcurrent ==
  /\ \E a \in ConcurrentRequests, b \in ConcurrentRequests, pdfParse \in BOOLEAN :
       /\ req = <<NewRequest(a.body), NewRequest(b.body)>>
       /\ env = [pdfParse |-> pdfParse, installed |-> pdfParse,
                 page |-> <<a.page, b.page>>, file |-> <<a.file, b.file>>, uploads |-> 0]
  /\ render = Idle /\ parse = Idle /\ pub = Idle

NextConcurrent ==
  \/ \E i \in 1..2 : ConcBegin(i)
  \/ \E i \in 1..2 : ConcFetched(i)
  \/ \E i \in 1..2 : ConcMammothDone(i)
  \/ \E i \in 1..2 : ConcPdfDone(i)
  \/ UploadCv

SpecConcurrent == InitConcurrent /\ [][NextConcurrent]_vars

\* C18: in every interleaving of two requests at their await points, a
\* finished request has the response it gets when it runs alone with the same
\* page and file, and pdfParse is still what the process start made it.
C18_RequestsAreIndependent ==
  /\ \A i \in 1..2 :
       req[i].pc = "done" =>
         req[i].responses = Alone(NewRequest(req[i].body), EnvOf(env, i)).responses
  /\ env.pdfParse = env.installed

\* Request 1 has gone through the scrape and the DOCX parse to its 200
\* response while request 2, after its own scrape, awaits the PDF parse, and
\* a file was uploaded meanwhile.
C18_Witness ==
  /\ req[1].pc = "done"
  /\ req[1].responses[1].status = 200
  /\ \E k \in 1..Len(req[1].calls) : req[1].calls[k] = "extractTextFromDocx"
  /\ req[2].pc = "awaitPdf"
  /\ Len(req[2].steps) = 1
  /\ Len(req[2].cvText) = 60
  /\ env.uploads > 0

(***************************************************************************)
(* Claims about the fields and the name of parseCvSections.                *)
(***************************************************************************)

\* The text holds nothing for field f: no line among the first six can be a
\* name; no line besides the name line for the summary; no heading line of
\* the field, and for the experience no line after the sixth either.
FoundNothing(text, f) ==
  LET lines == Lines(text)
  IN CASE f = "name" -> \A i \in 1..Min(6, Len(lines)) : ~QualifiesAsName(lines[i])
       [] f = "summary" -> Len(lines) = 0 \/ (Len(lines) = 1 /\ QualifiesAsName(lines[1]))
       [] f = "experience" ->
            /\ \A i \in 1..Len(lines) : ~IncludesAny(ToLowerCase(lines[i]), ExperienceHeaders)
            /\ Len(lines) <= 6
       [] OTHER -> \A i \in 1..Len(lines) : ~IncludesAny(ToLowerCase(lines[i]), HeadersOf(f))

\* C19: every field of the CvSections is a string, and a field for which the
\* text holds nothing is the empty string.
C19_FieldsDefaultToEmpty ==
  Parsed => \A f \in Fields :
              /\ parse.sections[f] \in Seq(STRING)
              /\ FoundNothing(parse.text, f) => parse.sections[f] = <<>>

\* C19 as the code has it: every field is a string; a field other than the
\* name for which the text holds nothing is the empty string, and the name
\* is then the placeholder "Candidate Name".
C19_FieldsDefaultToEmptyOrPlaceholder ==
  Parsed => \A f \in Fields :
              /\ parse.sections[f] \in Seq(STRING)
              /\ FoundNothing(parse.text, f) =>
                   parse.sections[f] = IF f = "name" THEN CandidateName ELSE <<>>

\* A text of more than six lines was parsed in which no line can be a name
\* and no heading occurs: the name is the placeholder, the experience the
\* fallback block, the heading fields are empty.
C19_Witness ==
  /\ Parsed
  /\ Len(Lines(parse.text)) > 6
  /\ FoundNothing(parse.text, "name")
  /\ \A f \in Fields \ {"name", "summary", "experience"} : FoundNothing(parse.text, f)
  /\ parse.sections.name = CandidateName
  /\ parse.sections.education = <<>>
  /\ parse.sections.experience # <<>>

\* The number of whitespace-separated tokens of a trimmed line.
TokenCount(l) == Len(SplitRuns(l, WS))

\* C20: the name is the first of the first six lines that is not noise, is
\* longer than 3 characters and has at most 8 tokens, tokens being separated
\* by runs of whitespace; it is "Candidate Name" when there is none, and a
\* line at index 6 or later is never chosen.
C20_NameIsFirstLineOfAtMostEightTokens ==
  Parsed =>
    LET lines == Lines(parse.text)
        cands == {i \in 1..Min(6, Len(lines)) :
                    ~IsNoiseLine(lines[i]) /\ Len(lines[i]) > 3 /\ TokenCount(lines[i]) <= 8}
    IN parse.sections.name =
         IF cands = {} THEN CandidateName
         ELSE lines[CHOOSE i \in cands : \A j \in cands : i <= j]

\* C21: the summary is the space-join of the at most 5 lines that follow the
\* line the name loop chose, and nothing else: it is empty when the name line
\* is the last line, and when no line qualified as a name.
C21_SummaryFollowsChosenNameLine ==
  Parsed =>
    LET lines == Lines(parse.text)
        cands == {i \in 1..Min(6, Len(lines)) : QualifiesAsName(lines[i])}
    IN parse.sections.summary =
         IF cands = {} THEN <<>>
         ELSE LET chosen == (CHOOSE i \in cands : \A j \in cands : i <= j) - 1
              IN Join(Slice(lines, chosen + 1, chosen + 6), <<" ">>)

(***************************************************************************)
(* Claims about the slots of the page of generateFullHtml.                 *)
(***************************************************************************)

\* What the page holds between a template chunk and the next one.
PageSlot(html, chunk) ==
  LET o == NextIn(html, 1, {chunk})
  IN Slice(html, o, NextIn(html, o + 1, TemplateChunks) - 1)

HasToken(v) == v.t = "string" /\ \E i \in 1..Len(v.s) : v.s[i] \notin WS

\* C22: the value of --primary on the page is the first whitespace-delimited
\* token of themeColors when themeColors holds a token, leading whitespace or
\* not, and #111111 when themeColors is absent, empty or all whitespace.
C22_PrimaryIsFirstToken ==
  Rendered =>
    PageSlot(render.result.html, TplPrimary) =
      IF HasToken(render.themeColors)
      THEN SplitRuns(TrimStart(render.themeColors.s), WS)[1]
      ELSE DefaultPrimary

\* The placeholder the template has for an empty field.
PlaceholderOf(f) ==
  CASE f = "experience" -> NoExperience
    [] f = "education" -> NoEducation
    [] f = "projects" -> NoProjects
    [] f = "achievements" -> NoAchievements

\* C23: each of experience, education, projects, achievements and contact is
\* on the page: its escaped value when it is not empty, and for the fields
\* the template has a placeholder for, the placeholder when it is empty.
C23_EveryFieldIsRendered ==
  Rendered =>
    \A f \in {"experience", "education", "projects", "achievements", "contact"} :
      IF Len(render.sections[f]) > 0
      THEN Includes(render.result.html, Esc(render.sections[f]))
      ELSE f # "contact" => Includes(render.result.html, PlaceholderOf(f))

\* C24: what fetchDeepseekText returned for an accessible page comes from the
\* text collected over the selectors when that text exceeds 400 characters,
\* and from the filtered body text otherwise.
C24_BodyFallbackUnlessOver400 ==
  \A k \in 1..Len(req.steps) :
    (req.steps[k].source = "fetchDeepseekText" /\ env.page.status = "ok") =>
      LET collected == CollectSelectors(env.page, 1, <<>>)
      IN req.steps[k].text =
           FinalCleanup(IF Len(collected) > 400 THEN collected ELSE BodyFallback(env.page))

(***************************************************************************)
(* The skills block of the other renderers of the repository: variant 1    *)
(* (src/unnamed/part_000:161-164), variant 2 (src/unnamed/part_000:425-428)*)
(* and variant 3 (src/unnamed/part_001:241-246).  Under this specification *)
(* render is one call: the variant, the skills field and the block.        *)
(* The backslash character is written "backslash".                         *)
(***************************************************************************)

SkillOpen == "<span class=\"skill\">"

\* The character class of the regular expression /[,\\n]+/ of the three
\* variants: a comma, a backslash and the letter n.
VariantSeparators == {",", "backslash", "n"}

\* Variant 2 trims a token and uses the skill-chip class; 1 and 3 do neither.
RECURSIVE VariantChips(_, _)
VariantChips(variant, tokens) ==
  IF Len(tokens) = 0 THEN <<>>
  ELSE (IF variant = 2
        THEN <<ChipOpen>> \o Esc(Trim(tokens[1]))
        ELSE <<SkillOpen>> \o Esc(tokens[1]))
       \o <<ChipClose>> \o VariantChips(variant, Tail(tokens))

\* sections.skills ? sections.skills.split(/[,\\n]+/).map(...).join('') : 'No skills found'
VariantSkillsSlot(variant, skills) ==
  IF Len(skills) > 0 THEN VariantChips(variant, SplitRuns(skills, VariantSeparators)) ELSE NoSkills

VariantWords ==
  {<<"G", "o">>, <<"R", "u", "s", "t">>, <<"P", "y", "t", "h", "o", "n">>, <<"L", "i", "n", "u", "x">>,
   <<"a", "backslash", "b">>}

VariantJoins == {<<",">>, <<"\n">>, <<",", " ">>}

VariantSkills ==
  {a \o j \o b : a \in VariantWords, j \in VariantJoins, b \in VariantWords}
  \cup {PaySkills, PaySkillsTrailing, PaySkillsLeading, <<>>}

InitVariants ==
  /\ \E v \in 1..3, sk \in VariantSkills :
       render = [pc |-> "ready", variant |-> v, skills |-> sk, slot |-> <<>>]
  /\ parse = Idle /\ req = Idle /\ env = Idle /\ pub = Idle

\* One call of a variant of generateFullHtml: its skills block.
VariantCall ==
  /\ render.pc = "ready"
  /\ render' = [render EXCEPT !.pc = "done", !.slot = VariantSkillsSlot(render.variant, render.skills)]
  /\ UNCHANGED <<parse, req, env, pub>>

NextVariants == VariantCall

SpecVariants == InitVariants /\ [][NextVariants]_vars

\* The contents of the span elements of a skills block, in order.
RECURSIVE SpanContentsFrom(_, _)
SpanContentsFrom(slot, i) ==
  LET o == NextIn(slot, i, {ChipOpen, SkillOpen})
  IN IF o > Len(slot) THEN <<>>
     ELSE LET j == NextIn(slot, o + 1, {ChipClose})
          IN <<Trim(Slice(slot, o, j - 1))>> \o SpanContentsFrom(slot, j + 1)

\* C25: in the three variants a non-empty skills field is split on commas
\* and newlines only: the chips are, up to surrounding spaces, the pieces
\* between runs of commas and newlines, and "Go, Rust\nPython" yields the
\* chips Go, Rust, Python.
C25_VariantsSplitOnCommaAndNewline ==
  (render.pc = "done" /\ Len(render.skills) > 0) =>
    LET chips == SpanContentsFrom(render.slot, 1)
        tokens == SplitRuns(render.skills, {",", "\n"})
    IN /\ Len(chips) = Len(tokens)
       /\ \A k \in 1..Len(chips) : chips[k] = Trim(Esc(tokens[k]))
       /\ render.skills = PaySkills =>
            chips = <<<<"G", "o">>, <<"R", "u", "s", "t">>, <<"P", "y", "t", "h", "o", "n">>>>

(***************************************************************************)
(* POST /upload-cv and the disk storage of multer (src/server.js:42-50 and *)
(* 154-169).  Under this specification env is the clock of Date.now() and  *)
(* the uploads directory, a set of [filename, upload]: the stored name and *)
(* the number of the upload whose bytes the file holds; req is the         *)
(* sequence of the responses sent.                                         *)
(***************************************************************************)

MaxClock == 2

\* path.extname(file.originalname) || '' of the uploaded files.
UploadExts == {<<".", "p", "d", "f">>, <<".", "d", "o", "c", "x">>, <<>>}

\* `${Date.now()}${ext}` (src/server.js:47)
StoredFilename(now, ext) == <<Digits[now + 1]>> \o ext

\* A millisecond passes.
ClockTick ==
  /\ env.now < MaxClock
  /\ env' = [env EXCEPT !.now = @ + 1]
  /\ UNCHANGED <<render, parse, req, pub>>

\* An upload with a file: multer writes it under the name the filename
\* callback gives, replacing a file of that name, and the handler answers
\* with the name.
UploadStored ==
  /\ Len(req) < MaxUploads
  /\ \E ext \in UploadExts :
       LET name == StoredFilename(env.now, ext)
       IN /\ env' = [env EXCEPT !.dir = {f \in @ : f.filename # name}
                                         \cup {[filename |-> name, upload |-> Len(req) + 1]}]
          /\ req' = Append(req, [status |-> 200, ok |-> TRUE, filename |-> name])
  /\ UNCHANGED <<render, parse, pub>>

\* An upload without a file: 400 (src/server.js:156).
UploadWithoutFile ==
  /\ Len(req) < MaxUploads
  /\ req' = Append(req, [status |-> 400, ok |-> FALSE, filename |-> <<>>])
  /\ UNCHANGED <<render, parse, env, pub>>

InitUpload ==
  /\ env = [now |-> 0, dir |-> {}]
  /\ req = <<>>
  /\ render = Idle /\ parse = Idle /\ pub = Idle

NextUpload == ClockTick \/ UploadStored \/ UploadWithoutFile

SpecUpload == InitUpload /\ [][NextUpload]_vars

\* C26: two uploads that both succeeded were answered with different
\* filenames, and the file of each is still in the uploads directory.
C26_StoredFilenamesAreDistinct ==
  /\ \A i \in 1..Len(req), j \in 1..Len(req) :
       (i < j /\ req[i].ok /\ req[j].ok) => req[i].filename # req[j].filename
  /\ \A i \in 1..Len(req) :
       req[i].ok => \E f \in env.dir : f.upload = i /\ f.filename = req[i].filename

\* C27: the page /generate returns holds no <script tag, and what it holds
\* in the places of --primary, themeType, themeColors and professional has
\* no < and no >, whatever the body carries for the three parameters.
C27_ParametersAddNoMarkup ==
  Responded(200) =>
    LET html == req.responses[1].html
    IN /\ ~HasScriptTag(html)
       /\ \A chunk \in {TplPrimary, TplThemeType, TplThemeColors, TplProfessional} :
            \A i \in 1..Len(PageSlot(html, chunk)) : PageSlot(html, chunk)[i] \notin {"<", ">"}

\* The position of the first line holding a keyword of hs, 0 when none does.
HeadingIndex(ls, hs) ==
  IF HasHeading(ls, hs)
  THEN CHOOSE i \in 1..Len(ls) : HoldsKeyword(ls, i, hs) /\ \A j \in 1..(i - 1) : ~HoldsKeyword(ls, j, hs)
  ELSE 0

\* The positions of the lines after the first heading line of hs, up to the
\* next line holding a global heading keyword.
CapturedRange(ls, hs) ==
  LET h == HeadingIndex(ls, hs)
      stops == {j \in (h + 1)..Len(ls) : HoldsKeyword(ls, j, GlobalHeadings)}
  IN IF h = 0 THEN {}
     ELSE (h + 1)..((IF stops = {} THEN Len(ls) + 1 ELSE CHOOSE j \in stops : \A k \in stops : j <= k) - 1)

\* The value of field f is the lines of its captured range.
CapturedByHeading(ls, f) ==
  LET rg == CapturedRange(ls, HeadersOf(f))
  IN /\ rg # {}
     /\ parse.sections[f] = Join([k \in 1..Cardinality(rg) |-> ls[HeadingIndex(ls, HeadersOf(f)) + k]], <<"\n">>)

\* C28: the ranges of lines two different fields capture through their
\* headings are disjoint, and none holds the heading line of the other
\* field.
C28_CapturedRangesAreDisjoint ==
  Parsed =>
    LET ls == ParsedLines
    IN \A f \in SectionFields, g \in SectionFields :
         (f # g /\ CapturedByHeading(ls, f) /\ CapturedByHeading(ls, g)) =>
           /\ CapturedRange(ls, HeadersOf(f)) \cap CapturedRange(ls, HeadersOf(g)) = {}
           /\ HeadingIndex(ls, HeadersOf(g)) \notin CapturedRange(ls, HeadersOf(f))

FileSources == {"extractTextFromDocx", "extractTextFromDocxZipFallback", "extractTextFromPdf", "readFileSync"}

\* C29: when the scrape returned at least 120 characters, no file source is
\* called and the text parsed is the scrape result; and a file source is
\* called only while cvText is shorter than 120 characters.
C29_LongScrapeSkipsTheFile ==
  /\ \A k \in 1..Len(req.steps) :
       (req.steps[k].source = "fetchDeepseekText" /\ Len(req.steps[k].text) >= 120) =>
         /\ \A f \in FileSources : ~HasCalled(f)
         /\ HasCalled("parseCvSections") => req.cvText = req.steps[k].text
  /\ \A k \in 1..Len(req.steps) :
       req.steps[k].source \in FileSources => Len(req.steps[k].before) < 120

\* A request with a share URL whose scrape gave at least 120 characters and
\* with an existing .docx file that parses well has been answered 200 from
\* the scrape alone.
C29_Witness ==
  /\ req.pc = "done"
  /\ Responded(200)
  /\ env.file.exists /\ env.file.ext = ".docx" /\ env.file.mammoth.ok
  /\ Len(req.steps) = 1
  /\ req.steps[1].source = "fetchDeepseekText"
  /\ Len(req.steps[1].text) >= 120
  /\ req.cvText = req.steps[1].text
  /\ req.calls = <<"fetchDeepseekText", "parseCvSections", "generateFullHtml">>

(***************************************************************************)
(* Claims about the order of the steps of the publish script.              *)
(***************************************************************************)

PubHasCalled(what) == \E i \in 1..Len(pub.calls) : pub.calls[i] = what

RepoCalls == {"getFileSha", "commitToGithub"}

PublishOrder ==
  <<"uploadFileToBackend", "generateHtmlOnBackend", "sanitizeGeneratedHtml", "getFileSha", "commitToGithub">>

\* C30: createOrUpdateFileContents is called at most once and only after
\* the upload, the generation and the sanitization, in that order; without
\* GITHUB_TOKEN or without the local file the script exits with 1 before any
\* call; and a script that ended at the upload or at the generation exited
\* with 1 without a call to the repository.
C30_CommitOnlyAfterAllSteps ==
  /\ Cardinality({i \in 1..Len(pub.calls) : pub.calls[i] = "commitToGithub"}) <= 1
  /\ Len(pub.calls) <= Len(PublishOrder)
  /\ \A i \in 1..Len(pub.calls) : pub.calls[i] = PublishOrder[i]
  /\ pub.commit.made <=> PubHasCalled("commitToGithub")
  /\ (pub.pc # "start" /\ (~pub.token \/ ~pub.localFile)) =>
       pub.pc = "exited" /\ pub.exit = 1 /\ pub.calls = <<>>
  /\ (pub.pc = "exited" /\ Len(pub.calls) \in {1, 2}) =>
       pub.exit = 1 /\ ~pub.commit.made /\ \A c \in RepoCalls : ~PubHasCalled(c)
  /\ (pub.pc = "exited" /\ pub.exit = 0) => pub.calls = PublishOrder

\* The script has ended with exit status 0 after the five steps in order.
C30_Witness ==
  /\ pub.pc = "exited"
  /\ pub.exit = 0
  /\ pub.token /\ pub.localFile
  /\ pub.commit.made
  /\ pub.calls = PublishOrder

====
